---- MODULE Spec2Model ----
(***************************************************************************)
(* Oracle node: reward allocator (DistributorRewards), multi-endpoint      *)
(* consensus pick (_find_max_consensus) and the paginated GraphQL query.   *)
(* Addresses are integers whose order is the order of sorted().            *)
(***************************************************************************)
EXTENDS Integers, Sequences, FiniteSets, TLC

\* ------------------------------------------------------------------------
\* Bounds of the model
\* ------------------------------------------------------------------------

\* positions (holder entries) the position engines report in one run, in total
MaxHoldings == 2
\* a holder's balance is in 0..MaxBal
MaxBal == 1
\* a contract's total supply is in 0..MaxSupply
MaxSupply == 2
\* rewards -1..MaxReward are tried, besides the scenario reward of 1000
MaxReward == 1
\* the subgraph endpoints queried for one consensus pick are 1..MaxEndpoints
MaxEndpoints == 3
\* the endpoints report block 0 or a block in 100..100 + MaxBlockSpread
MaxBlockSpread == 2
\* the upstream source holds 0..MaxEntities entities
MaxEntities == 2250
\* a paginated query against a lagging upstream is followed for MaxQueries queries
MaxQueries == 4
\* the claims file of the previous merkle drop has at most MaxPrevEntries accounts
MaxPrevEntries == 2
\* an operator's deposit-data file has MaxFileLen entries, at indexes 0..MaxFileLen - 1
MaxFileLen == 2
\* the subgraph reports at most MaxPositions holders of a distributor token
MaxPositions == 2
\* a DistributionAdded event distributes at most MaxAmount
MaxAmount == 5
\* the events and the distribution window lie in the blocks 0..MaxDistBlock
MaxDistBlock == 4
\* blocks_interval is at most MaxInterval
MaxInterval == 3
\* the scanned contracts have events in the blocks 0..MaxScanBlock
MaxScanBlock == 4
\* at most MaxFailures getLogs calls of a scan fail
MaxFailures == 2
\* the pool has at most MaxValidators registered validators
MaxValidators == 3
\* the finalized block of a tick is at most MaxElapsed after the last rewards update
MaxElapsed == 6
\* the beacon chain finalizes epochs up to MaxFinalizedEpoch
MaxFinalizedEpoch == 7
\* the on-chain rewards nonce advances at most MaxNonceAdvances times
MaxNonceAdvances == 1
\* the main loop is followed for MaxTicks passes
MaxTicks == 2

\* ------------------------------------------------------------------------
\* Addresses and settings
\* ------------------------------------------------------------------------

\* uni_v3_pools, SWISE token and Rari Fuse pools: the supported contracts
SupportedContracts == {2, 4, 6}
\* every address that can hold a position
Addresses == 1..6
DISTRIBUTOR_FALLBACK_ADDRESS == 5
\* the on-chain rewards nonce when the model starts
FirstNonce == 5
\* self.reward_token
REWARD_TOKEN == "rETH2"

RewardChoices == (-1..MaxReward) \cup {1000}

NoBalances == [total_supply |-> -1, balances |-> << >>, fetched |-> FALSE]
EmptyRewards == << >>

VARIABLES
    contract_address,   \* argument of get_rewards
    reward,             \* argument of get_rewards
    fetched,            \* what get_balances returns for each contract at to_block
    holdings,           \* positions reported so far
    stack,              \* the frames of _get_rewards, innermost last
    returned,           \* the Rewards get_rewards returned, once apc = "done"
    apc,                \* "start", "running", "done"
    run,                \* 1 for the first invocation, 2 for the repeated one
    first_returned      \* what the first invocation returned

alloc_vars == <<contract_address, reward, fetched, holdings, stack, returned,
                apc, run, first_returned>>

VARIABLES
    items,              \* results of the fan-out, one per endpoint, in gather order
    block,              \* the Block get_finalized_block returned
    cpc                 \* "start", "done", "failed" (get_finalized_block raised)

consensus_vars == <<items, block, cpc>>

VARIABLES
    entities,           \* number of entities the upstream source holds
    last_id,            \* variables["last_id"], 0 for the empty string
    result,             \* the list the paginated query accumulates and returns
    calls,              \* the queries the upstream saw: cursor and entities returned
    paginator,          \* "base" (clients.py) or "token_holders" (distributor_tokens.py)
    ppc                 \* "query", "returned"

page_vars == <<entities, last_id, result, calls, paginator, ppc>>

VARIABLES
    prev_balances,      \* the claims file of the previous merkle drop, in file order
    claimed_accounts,   \* accounts with a Claimed event since the previous update
    period_rewards,     \* the Rewards newly allocated in this update
    unclaimed_balances, \* what get_unclaimed_balances returned
    final_rewards,      \* the new Rewards merged with the unclaimed balances
    mpc                 \* "start", "unclaimed", "merged"

carry_vars == <<prev_balances, claimed_accounts, period_rewards, unclaimed_balances,
                final_rewards, mpc>>

VARIABLES
    operators,          \* result["operators"] of OPERATORS_QUERY, in the order returned
    used_pubkeys,       \* argument of select_validator
    registered_pubkeys, \* public keys with a validator registration at the block
    selected,           \* what select_validator returned
    spc,                \* select_validator: "start", "selected"
    validator_params,   \* ValidatorVotingParameters: validators_nonce, pool_balance
    block_number,       \* argument of ValidatorsController.process
    validator_votes,    \* the submit_vote calls of the validators controller
    vpc                 \* process: "start", "select", "root", "done"

validators_vars == <<operators, used_pubkeys, registered_pubkeys, selected, spc,
                     validator_params, block_number, validator_votes, vpc>>

VARIABLES
    chain,              \* the on-chain rewards state: nonce, totals and update timestamp
    network,            \* the NETWORK setting
    rewards_params,     \* RewardsVotingParameters read by the main loop for the tick
    current_timestamp,  \* timestamp of the finalized block of the tick
    finalized_epoch,    \* checkpoints["finalized"]["epoch"] of the beacon chain
    beacon_validators,  \* the pool's registered validators: status and balance
    rframe,             \* the locals of RewardsController.process
    reward_votes,       \* the submit_vote calls of the rewards controller
    last_vote_total_rewards, \* self.last_vote_total_rewards
    rpc,                \* process: "idle", "start", "keys", "finality", "fetch", "vote",
                        \* "returned", "raised"
    tick,               \* passes of the main loop started so far
    mainpc,             \* main: "loop", "gather", "closed", "crashed"
    failed_ticks,       \* the ticks in which process raised
    tick_start_state    \* the controller's state when the tick started

rewards_vars == <<chain, network, rewards_params, current_timestamp, finalized_epoch,
                  beacon_validators, rframe, reward_votes, last_vote_total_rewards,
                  rpc, tick, mainpc, failed_ticks, tick_start_state>>

VARIABLES
    interrupt_exit,     \* InterruptHandler.exit
    session             \* the aiohttp session of main: "open", "closed"

main_vars == <<interrupt_exit, session>>

VARIABLES
    holder_positions,   \* the distributorTokenHolders the subgraph returned
    from_block,         \* argument of get_token_liquidity_points
    to_block,           \* argument of get_token_liquidity_points
    holder_points,      \* the Balances get_token_liquidity_points returns
    tpc                 \* get_token_liquidity_points: "process", "returned"

points_vars == <<holder_positions, from_block, to_block, holder_points, tpc>>

VARIABLES
    distribute_events,          \* the DistributionAdded events of the merkle distributor
    distribution_start_block,   \* argument of get_distributions
    distribution_end_block,     \* argument of get_distributions
    blocks_interval,            \* argument of get_distributions
    distributions,              \* what get_distributions returns: block -> list of Distribution
    dpc                         \* get_distributions: "start", "returned"

dist_vars == <<distribute_events, distribution_start_block, distribution_end_block,
               blocks_interval, distributions, dpc>>

VARIABLES
    scanner,            \* the function scanning: "erc20_balances", "participated_accounts",
                        \* "v3_liquidity"
    first_block,        \* the start_block argument (_start_block)
    start_block,        \* start_block, moved on by the loop
    end_block,          \* the end_block argument
    blocks_spread,      \* blocks_spread
    scan_phase,         \* the events asked for: "transfer", "increase", "decrease"
    held_events,        \* the local holding the result of the last successful getLogs
    ranges,             \* the getLogs calls that succeeded
    scan_balances,      \* balances, owner_to_liquidity
    scan_accounts,      \* accounts
    applied,            \* how many times each event has been processed
    failures,           \* the getLogs calls that failed
    scpc                \* "scan", "returned", "crashed"

scan_vars == <<scanner, first_block, start_block, end_block, blocks_spread, scan_phase,
               held_events, ranges, scan_balances, scan_accounts, applied, failures, scpc>>

\* the variables of the components around the allocator, the consensus pick and
\* the paginated query
ext_vars == <<carry_vars, validators_vars, rewards_vars, main_vars, points_vars,
              dist_vars, scan_vars>>

vars == <<alloc_vars, consensus_vars, page_vars, ext_vars>>

\* ------------------------------------------------------------------------
\* DistributorRewards helpers
\* ------------------------------------------------------------------------

is_supported_contract(address) == address \in SupportedContracts

\* a new entry is seeded with the amount instead of "0", then the sum
add_value_seeded(rewards, to, reward_token, amount) ==
    LET account_rewards == IF to \in DOMAIN rewards THEN rewards[to] ELSE << >>
        prev_amount == IF reward_token \in DOMAIN account_rewards
                       THEN account_rewards[reward_token] ELSE amount
        updated == [t \in DOMAIN account_rewards \cup {reward_token} |->
                       IF t = reward_token THEN prev_amount + amount
                       ELSE account_rewards[t]]
    IN  [a \in DOMAIN rewards \cup {to} |-> IF a = to THEN updated ELSE rewards[a]]

\* rewards.setdefault(to, {}).setdefault(reward_token, "0"), then the sum
add_value(rewards, to, reward_token, amount) ==
    LET account_rewards == IF to \in DOMAIN rewards THEN rewards[to] ELSE << >>
        prev_amount == IF reward_token \in DOMAIN account_rewards
                       THEN account_rewards[reward_token] ELSE 0
        updated == [t \in DOMAIN account_rewards \cup {reward_token} |->
                       IF t = reward_token THEN prev_amount + amount
                       ELSE account_rewards[t]]
    IN  [a \in DOMAIN rewards \cup {to} |-> IF a = to THEN updated ELSE rewards[a]]

RewardEntries(rewards) ==
    UNION {{<<a, t>> : t \in DOMAIN rewards[a]} : a \in DOMAIN rewards}

RECURSIVE MergeEntries(_, _, _)
MergeEntries(merged, rewards2, entries) ==
    IF entries = {} THEN merged
    ELSE LET e == CHOOSE x \in entries : TRUE
         IN  MergeEntries(add_value(merged, e[1], e[2], rewards2[e[1]][e[2]]),
                          rewards2, entries \ {e})

merge_rewards(rewards1, rewards2) ==
    MergeEntries(rewards1, rewards2, RewardEntries(rewards2))

\* sorted(balances.keys()): insertion sort of the keys as delivered
RECURSIVE InsertSorted(_, _)
InsertSorted(sorted_seq, x) ==
    IF sorted_seq = << >> THEN <<x>>
    ELSE IF x <= Head(sorted_seq) THEN <<x>> \o sorted_seq
    ELSE <<Head(sorted_seq)>> \o InsertSorted(Tail(sorted_seq), x)

RECURSIVE SortKeys(_)
SortKeys(keys) ==
    IF keys = << >> THEN << >>
    ELSE InsertSorted(SortKeys(Tail(keys)), Head(keys))

\* the accounts taken in the order the dict delivers them
unsorted_accounts(keys) == keys

sorted_accounts(keys) == SortKeys(keys)

\* the orders in which a dict with these keys can deliver them
KeyOrders(S) ==
    {s \in [1..Cardinality(S) -> S] : \A i, j \in DOMAIN s : i # j => s[i] # s[j]}

\* ------------------------------------------------------------------------
\* What the position engines can return
\* ------------------------------------------------------------------------

HolderSets(budget) == {h \in SUBSET Addresses : Cardinality(h) <= budget}

BalancesWithin(budget) ==
    UNION {{[total_supply |-> s, balances |-> b, fetched |-> TRUE] :
               s \in 0..MaxSupply, b \in [h -> 0..MaxBal]} : h \in HolderSets(budget)}

\* The Balances of the end-to-end scenarios, reported whatever the budget:
\* direct payout (three holders of balance 1, also with a total supply below
\* their sum), nested (C = 2 held by D = 4 alone, D held by alpha = 1 and
\* beta = 3) and the cycle (4 held by 2 alone).
Balances(total_supply, balances) ==
    [total_supply |-> total_supply, balances |-> balances, fetched |-> TRUE]

ScenarioBalances(contract) ==
    IF contract = 2
    THEN {Balances(3, (1 :> 1) @@ (3 :> 1) @@ (5 :> 1)),
          Balances(1, (1 :> 1) @@ (3 :> 1) @@ (5 :> 1)),
          Balances(1, (4 :> 1))}
    ELSE IF contract = 4
    THEN {Balances(2, (1 :> 1) @@ (3 :> 1)), Balances(1, (2 :> 1))}
    ELSE {}

Budget == IF holdings >= MaxHoldings THEN 0 ELSE MaxHoldings - holdings

\* await self.get_balances(contract_address): the same block gives the same answer
get_balances(contract) ==
    IF fetched[contract].fetched THEN {fetched[contract]}
    ELSE BalancesWithin(Budget) \cup ScenarioBalances(contract)

\* ------------------------------------------------------------------------
\* _get_rewards, one frame per invocation
\* ------------------------------------------------------------------------

NewFrame(contract, total_reward, visited) ==
    [contract_address |-> contract, total_reward |-> total_reward,
     visited |-> visited, at |-> "fetch", accounts |-> << >>, i |-> 1,
     total_distributed |-> 0, rewards |-> EmptyRewards]

Top == stack[Len(stack)]

SetTop(frame) == [stack EXCEPT ![Len(stack)] = frame]

\* total_supply <= 0: no recipients for the rewards
has_no_recipients(total_supply) == total_supply <= 0

\* the reward that finds no recipients is dropped
no_recipients_rewards_dropped(total_reward) == EmptyRewards

\* no recipients for the rewards -> assign reward to the rescue address
no_recipients_rewards(total_reward) ==
    add_value(EmptyRewards, DISTRIBUTOR_FALLBACK_ADDRESS, REWARD_TOKEN, total_reward)

\* every account gets the floor share, the last one too
account_reward_floor_only(frame, balances, total_supply) ==
    (frame.total_reward * balances[frame.accounts[frame.i]]) \div total_supply

\* the reward of the account at position i of the sorted accounts
account_reward_of(frame, balances, total_supply) ==
    IF frame.i = Len(frame.accounts)
    THEN frame.total_reward - frame.total_distributed
    ELSE (frame.total_reward * balances[frame.accounts[frame.i]]) \div total_supply

\* only a reward of exactly 0 is skipped
is_skipped_only_zero(account_reward) == account_reward = 0

\* account_reward <= 0: continue
is_skipped(account_reward) == account_reward <= 0

\* every supported holder counts as visited
is_looped_or_supported(account, frame) ==
    \/ account = frame.contract_address
    \/ account \in frame.visited
    \/ is_supported_contract(account)

\* account == contract_address or account in visited
is_looped(account, frame) ==
    account = frame.contract_address \/ account \in frame.visited

TypeOK ==
    /\ contract_address \in Addresses
    /\ reward \in RewardChoices
    /\ apc \in {"start", "running", "done"}
    /\ holdings \in Nat
    /\ run \in {1, 2}

AllocInit ==
    /\ contract_address \in Addresses
    /\ reward \in RewardChoices
    /\ fetched = [c \in SupportedContracts |-> NoBalances]
    /\ holdings = 0
    /\ stack = << >>
    /\ returned = EmptyRewards
    /\ apc = "start"
    /\ run = 1
    /\ first_returned = EmptyRewards
    \* no consensus pick and no paginated query in progress
    /\ items = << >>
    /\ block = [id |-> -1, timestamp |-> -1]
    /\ cpc = "done"
    /\ entities = 0
    /\ last_id = 0
    /\ result = << >>
    /\ calls = << >>
    /\ paginator = "base"
    /\ ppc = "returned"
    \* no carry-over merge in progress
    /\ prev_balances = << >>
    /\ claimed_accounts = {}
    /\ period_rewards = EmptyRewards
    /\ unclaimed_balances = EmptyRewards
    /\ final_rewards = EmptyRewards
    /\ mpc = "merged"
    \* no validator selection in progress
    /\ operators = << >>
    /\ used_pubkeys = {}
    /\ registered_pubkeys = {}
    /\ selected = [operator |-> 0, public_key |-> 0, deposit_data_root |-> 0]
    /\ spc = "selected"
    /\ validator_params = [validators_nonce |-> 0, pool_balance |-> 0]
    /\ block_number = 0
    /\ validator_votes = << >>
    /\ vpc = "done"
    \* no rewards update in progress
    /\ chain = [rewards_nonce |-> 0, total_rewards |-> 0, total_fees |-> 0,
                rewards_updated_at_timestamp |-> 0]
    /\ network = "mainnet"
    /\ rewards_params = [rewards_nonce |-> 0, total_rewards |-> 0, total_fees |-> 0,
                         rewards_updated_at_timestamp |-> 0]
    /\ current_timestamp = 0
    /\ finalized_epoch = 0
    /\ beacon_validators = << >>
    /\ rframe = [next_update_time |-> 0, update_timestamp |-> 0, update_epoch |-> 0,
                 public_keys |-> 0, i |-> 0, fetched |-> {}, total_rewards |-> 0,
                 activated_validators |-> 0]
    /\ reward_votes = << >>
    /\ last_vote_total_rewards = -1
    /\ rpc = "idle"
    /\ tick = 0
    /\ mainpc = "loop"
    /\ failed_ticks = {}
    /\ tick_start_state = -1
    \* no interrupt received
    /\ interrupt_exit = FALSE
    /\ session = "open"
    \* no token points in progress
    /\ holder_positions = << >>
    /\ from_block = 0
    /\ to_block = 0
    /\ holder_points = NoBalances
    /\ tpc = "returned"
    \* no interval distributions in progress
    /\ distribute_events = << >>
    /\ distribution_start_block = 0
    /\ distribution_end_block = 0
    /\ blocks_interval = 1
    /\ distributions = << >>
    /\ dpc = "returned"
    \* no block-range scan in progress
    /\ scanner = "erc20_balances"
    /\ first_block = 0
    /\ start_block = 0
    /\ end_block = 0
    /\ blocks_spread = 0
    /\ scan_phase = "transfer"
    /\ held_events = [bound |-> FALSE, kind |-> "transfer", from |-> 0, to |-> 0]
    /\ ranges = << >>
    /\ scan_balances = << >>
    /\ scan_accounts = {}
    /\ applied = << >>
    /\ failures = 0
    /\ scpc = "returned"

\* get_rewards up to its first await
GetRewards ==
    /\ apc = "start"
    /\ IF reward <= 0
       THEN /\ returned' = EmptyRewards
            /\ apc' = "done"
            /\ stack' = stack
       ELSE IF is_supported_contract(contract_address)
       THEN /\ stack' = <<NewFrame(contract_address, reward, {contract_address})>>
            /\ apc' = "running"
            /\ returned' = returned
       ELSE /\ returned' = add_value(EmptyRewards, DISTRIBUTOR_FALLBACK_ADDRESS,
                                     REWARD_TOKEN, reward)
            /\ apc' = "done"
            /\ stack' = stack
    /\ UNCHANGED <<contract_address, reward, fetched, holdings, run, first_returned>>
    /\ UNCHANGED <<consensus_vars, page_vars, ext_vars>>

\* result = await self.get_balances(contract_address), the supply check and the sort
FetchBalances ==
    /\ apc = "running"
    /\ Top.at = "fetch"
    /\ \E fetch_result \in get_balances(Top.contract_address) :
       \E keys \in KeyOrders(DOMAIN fetch_result.balances) :
          /\ fetched' = [fetched EXCEPT ![Top.contract_address] = fetch_result]
          /\ holdings' = IF fetched[Top.contract_address].fetched THEN holdings
                         ELSE holdings + Cardinality(DOMAIN fetch_result.balances)
          /\ IF has_no_recipients(fetch_result.total_supply)
             THEN stack' = SetTop([Top EXCEPT
                      !.rewards = no_recipients_rewards(Top.total_reward),
                      !.at = "return"])
             ELSE stack' = SetTop([Top EXCEPT
                      !.accounts = sorted_accounts(keys), !.i = 1, !.at = "loop"])
    /\ UNCHANGED <<contract_address, reward, returned, apc, run, first_returned>>
    /\ UNCHANGED <<consensus_vars, page_vars, ext_vars>>

\* one iteration of the loop over the sorted accounts
LoopStep ==
    /\ apc = "running"
    /\ Top.at = "loop"
    /\ Top.i <= Len(Top.accounts)
    /\ LET frame == Top
           fetch_result == fetched[frame.contract_address]
           account == frame.accounts[frame.i]
           account_reward == account_reward_of(frame, fetch_result.balances, fetch_result.total_supply)
       IN  IF is_skipped(account_reward)
           THEN stack' = SetTop([frame EXCEPT !.i = frame.i + 1])
           ELSE IF is_looped(account, frame)
           THEN stack' = SetTop([frame EXCEPT
                    !.rewards = add_value(frame.rewards, DISTRIBUTOR_FALLBACK_ADDRESS,
                                          REWARD_TOKEN, account_reward),
                    !.total_distributed = frame.total_distributed + account_reward,
                    !.i = frame.i + 1])
           ELSE IF is_supported_contract(account)
           THEN stack' = Append(stack,
                    NewFrame(account, account_reward, frame.visited \cup {account}))
           ELSE stack' = SetTop([frame EXCEPT
                    !.rewards = add_value(frame.rewards, account, REWARD_TOKEN,
                                          account_reward),
                    !.total_distributed = frame.total_distributed + account_reward,
                    !.i = frame.i + 1])
    /\ UNCHANGED <<contract_address, reward, fetched, holdings, returned, apc, run,
                   first_returned>>
    /\ UNCHANGED <<consensus_vars, page_vars, ext_vars>>

\* return rewards: to the awaiting frame, which merges it, or to get_rewards' caller
Return ==
    /\ apc = "running"
    /\ \/ Top.at = "return"
       \/ Top.at = "loop" /\ Top.i > Len(Top.accounts)
    /\ IF Len(stack) = 1
       THEN /\ returned' = Top.rewards
            /\ apc' = "done"
            /\ stack' = << >>
       ELSE LET caller == stack[Len(stack) - 1]
                new_rewards == Top.rewards
            IN  /\ stack' = [SubSeq(stack, 1, Len(stack) - 1) EXCEPT ![Len(stack) - 1] =
                        [caller EXCEPT
                            !.rewards = merge_rewards(caller.rewards, new_rewards),
                            !.total_distributed = caller.total_distributed + Top.total_reward,
                            !.i = caller.i + 1]]
                /\ UNCHANGED <<returned, apc>>
    /\ UNCHANGED <<contract_address, reward, fetched, holdings, run, first_returned>>
    /\ UNCHANGED <<consensus_vars, page_vars, ext_vars>>

\* a second invocation with the same arguments and the same fetched Balances
Rerun ==
    /\ apc = "done"
    /\ run = 1
    /\ run' = 2
    /\ first_returned' = returned
    /\ returned' = EmptyRewards
    /\ apc' = "start"
    /\ UNCHANGED <<contract_address, reward, fetched, holdings, stack>>
    /\ UNCHANGED <<consensus_vars, page_vars, ext_vars>>

AllocNext == GetRewards \/ FetchBalances \/ LoopStep \/ Return

\* ------------------------------------------------------------------------
\* Consensus over the subgraph endpoints
\* ------------------------------------------------------------------------

BlockNumbers == {0} \cup (100..(100 + MaxBlockSpread))

\* the result of FINALIZED_BLOCK_QUERY: blocks[0] with its id and timestamp
BlockItem(n) == [id |-> n, timestamp |-> 12 * n]

None == [id |-> -1, timestamp |-> -1]

\* func=lambda x: int(x["blocks"][0]["id"])
func(item) == item.id

\* the threshold without the + 1
majority_half(n) == n \div 2

\* majority = len(items) // 2 + 1
majority_of(n) == n \div 2 + 1

\* an endpoint counts only when it reports exactly this value
confirms_exactly(x, item) == func(x) = func(item)

\* func(x) >= func(item)
confirms(x, item) == func(x) >= func(item)

\* the first item a majority confirms is kept, larger ones after it are not looked at
RECURSIVE first_consensus_loop(_, _, _, _)
first_consensus_loop(its, k, maximum, res) ==
    IF k > Len(its) THEN res
    ELSE IF /\ func(its[k]) > maximum
            /\ Cardinality({x \in 1..Len(its) : confirms(its[x], its[k])})
                   >= majority_of(Len(its))
         THEN its[k]
         ELSE first_consensus_loop(its, k + 1, maximum, res)

\* every item a majority confirms replaces the result, larger or not
RECURSIVE latest_consensus_loop(_, _, _, _)
latest_consensus_loop(its, k, maximum, res) ==
    IF k > Len(its) THEN res
    ELSE IF Cardinality({x \in 1..Len(its) : confirms(its[x], its[k])})
                >= majority_of(Len(its))
         THEN latest_consensus_loop(its, k + 1, func(its[k]), its[k])
         ELSE latest_consensus_loop(its, k + 1, maximum, res)

RECURSIVE consensus_loop(_, _, _, _)
consensus_loop(its, k, maximum, res) ==
    IF k > Len(its) THEN res
    ELSE IF /\ func(its[k]) > maximum
            /\ Cardinality({x \in 1..Len(its) : confirms(its[x], its[k])})
                   >= majority_of(Len(its))
         THEN consensus_loop(its, k + 1, func(its[k]), its[k])
         ELSE consensus_loop(its, k + 1, maximum, res)

_find_max_consensus(its) == consensus_loop(its, 1, 0, None)

ConsensusInit ==
    \* no allocation and no paginated query in progress
    /\ contract_address = 1
    /\ reward = 0
    /\ fetched = [c \in SupportedContracts |-> NoBalances]
    /\ holdings = 0
    /\ stack = << >>
    /\ returned = EmptyRewards
    /\ apc = "done"
    /\ run = 1
    /\ first_returned = EmptyRewards
    /\ entities = 0
    /\ last_id = 0
    /\ result = << >>
    /\ calls = << >>
    /\ paginator = "base"
    /\ ppc = "returned"
    /\ items \in UNION {[1..n -> {BlockItem(b) : b \in BlockNumbers}] : n \in 1..MaxEndpoints}
    /\ block = None
    /\ cpc = "start"
    \* no carry-over merge in progress
    /\ prev_balances = << >>
    /\ claimed_accounts = {}
    /\ period_rewards = EmptyRewards
    /\ unclaimed_balances = EmptyRewards
    /\ final_rewards = EmptyRewards
    /\ mpc = "merged"
    \* no validator selection in progress
    /\ operators = << >>
    /\ used_pubkeys = {}
    /\ registered_pubkeys = {}
    /\ selected = [operator |-> 0, public_key |-> 0, deposit_data_root |-> 0]
    /\ spc = "selected"
    /\ validator_params = [validators_nonce |-> 0, pool_balance |-> 0]
    /\ block_number = 0
    /\ validator_votes = << >>
    /\ vpc = "done"
    \* no rewards update in progress
    /\ chain = [rewards_nonce |-> 0, total_rewards |-> 0, total_fees |-> 0,
                rewards_updated_at_timestamp |-> 0]
    /\ network = "mainnet"
    /\ rewards_params = [rewards_nonce |-> 0, total_rewards |-> 0, total_fees |-> 0,
                         rewards_updated_at_timestamp |-> 0]
    /\ current_timestamp = 0
    /\ finalized_epoch = 0
    /\ beacon_validators = << >>
    /\ rframe = [next_update_time |-> 0, update_timestamp |-> 0, update_epoch |-> 0,
                 public_keys |-> 0, i |-> 0, fetched |-> {}, total_rewards |-> 0,
                 activated_validators |-> 0]
    /\ reward_votes = << >>
    /\ last_vote_total_rewards = -1
    /\ rpc = "idle"
    /\ tick = 0
    /\ mainpc = "loop"
    /\ failed_ticks = {}
    /\ tick_start_state = -1
    \* no interrupt received
    /\ interrupt_exit = FALSE
    /\ session = "open"
    \* no token points in progress
    /\ holder_positions = << >>
    /\ from_block = 0
    /\ to_block = 0
    /\ holder_points = NoBalances
    /\ tpc = "returned"
    \* no interval distributions in progress
    /\ distribute_events = << >>
    /\ distribution_start_block = 0
    /\ distribution_end_block = 0
    /\ blocks_interval = 1
    /\ distributions = << >>
    /\ dpc = "returned"
    \* no block-range scan in progress
    /\ scanner = "erc20_balances"
    /\ first_block = 0
    /\ start_block = 0
    /\ end_block = 0
    /\ blocks_spread = 0
    /\ scan_phase = "transfer"
    /\ held_events = [bound |-> FALSE, kind |-> "transfer", from |-> 0, to |-> 0]
    /\ ranges = << >>
    /\ scan_balances = << >>
    /\ scan_accounts = {}
    /\ applied = << >>
    /\ failures = 0
    /\ scpc = "returned"

\* get_finalized_block once the gather has delivered the results: result["blocks"]
\* raises TypeError when the pick is None
GetFinalizedBlock ==
    /\ cpc = "start"
    /\ LET picked == _find_max_consensus(items)
       IN  IF picked = None
           THEN /\ cpc' = "failed"
                /\ block' = block
           ELSE /\ cpc' = "done"
                /\ block' = [id |-> picked.id, timestamp |-> picked.timestamp]
    /\ UNCHANGED <<items, alloc_vars, page_vars, ext_vars>>

ConsensusNext == GetFinalizedBlock

\* ------------------------------------------------------------------------
\* Paginated GraphQL query
\* ------------------------------------------------------------------------

PAGINATION_WINDOWS == 1000

\* the opaque id of the k-th entity in ascending id order
EntityId(k) == 3 * k + 1

\* the upstream source: the entities with id > cursor in ascending id order,
\* at most a window of them
UpstreamPage(n, cursor) ==
    LET before == IF cursor < EntityId(1) THEN 0 ELSE (cursor - 1) \div 3
        count == IF n - before < PAGINATION_WINDOWS THEN n - before
                 ELSE PAGINATION_WINDOWS
    IN  [k \in 1..count |-> [id |-> EntityId(before + k)]]

\* a full page ends the query too
is_short_or_full_page(chunks) == Len(chunks) <= PAGINATION_WINDOWS

\* len(chunks) < PAGINATION_WINDOWS
is_short_page(chunks) == Len(chunks) < PAGINATION_WINDOWS

\* chunks, result = [], [] and variables["last_id"] = ""
PageInit ==
    \* no allocation and no consensus pick in progress
    /\ contract_address = 1
    /\ reward = 0
    /\ fetched = [c \in SupportedContracts |-> NoBalances]
    /\ holdings = 0
    /\ stack = << >>
    /\ returned = EmptyRewards
    /\ apc = "done"
    /\ run = 1
    /\ first_returned = EmptyRewards
    /\ items = << >>
    /\ block = None
    /\ cpc = "done"
    /\ entities \in 0..MaxEntities
    /\ last_id = 0
    /\ result = << >>
    /\ calls = << >>
    /\ paginator \in {"base", "token_holders"}
    /\ ppc = "query"
    \* no carry-over merge in progress
    /\ prev_balances = << >>
    /\ claimed_accounts = {}
    /\ period_rewards = EmptyRewards
    /\ unclaimed_balances = EmptyRewards
    /\ final_rewards = EmptyRewards
    /\ mpc = "merged"
    \* no validator selection in progress
    /\ operators = << >>
    /\ used_pubkeys = {}
    /\ registered_pubkeys = {}
    /\ selected = [operator |-> 0, public_key |-> 0, deposit_data_root |-> 0]
    /\ spc = "selected"
    /\ validator_params = [validators_nonce |-> 0, pool_balance |-> 0]
    /\ block_number = 0
    /\ validator_votes = << >>
    /\ vpc = "done"
    \* no rewards update in progress
    /\ chain = [rewards_nonce |-> 0, total_rewards |-> 0, total_fees |-> 0,
                rewards_updated_at_timestamp |-> 0]
    /\ network = "mainnet"
    /\ rewards_params = [rewards_nonce |-> 0, total_rewards |-> 0, total_fees |-> 0,
                         rewards_updated_at_timestamp |-> 0]
    /\ current_timestamp = 0
    /\ finalized_epoch = 0
    /\ beacon_validators = << >>
    /\ rframe = [next_update_time |-> 0, update_timestamp |-> 0, update_epoch |-> 0,
                 public_keys |-> 0, i |-> 0, fetched |-> {}, total_rewards |-> 0,
                 activated_validators |-> 0]
    /\ reward_votes = << >>
    /\ last_vote_total_rewards = -1
    /\ rpc = "idle"
    /\ tick = 0
    /\ mainpc = "loop"
    /\ failed_ticks = {}
    /\ tick_start_state = -1
    \* no interrupt received
    /\ interrupt_exit = FALSE
    /\ session = "open"
    \* no token points in progress
    /\ holder_positions = << >>
    /\ from_block = 0
    /\ to_block = 0
    /\ holder_points = NoBalances
    /\ tpc = "returned"
    \* no interval distributions in progress
    /\ distribute_events = << >>
    /\ distribution_start_block = 0
    /\ distribution_end_block = 0
    /\ blocks_interval = 1
    /\ distributions = << >>
    /\ dpc = "returned"
    \* no block-range scan in progress
    /\ scanner = "erc20_balances"
    /\ first_block = 0
    /\ start_block = 0
    /\ end_block = 0
    /\ blocks_spread = 0
    /\ scan_phase = "transfer"
    /\ held_events = [bound |-> FALSE, kind |-> "transfer", from |-> 0, to |-> 0]
    /\ ranges = << >>
    /\ scan_balances = << >>
    /\ scan_accounts = {}
    /\ applied = << >>
    /\ failures = 0
    /\ scpc = "returned"

\* one pass of the while True loop of execute_base_gql_paginated_query
ExecutePage ==
    /\ ppc = "query"
    /\ paginator = "base"
    /\ LET chunks == UpstreamPage(entities, last_id)
       IN  /\ calls' = Append(calls, [last_id |-> last_id, count |-> Len(chunks)])
           /\ result' = result \o chunks
           /\ IF is_short_page(chunks)
              THEN /\ ppc' = "returned"
                   /\ last_id' = last_id
              ELSE /\ ppc' = "query"
                   /\ last_id' = chunks[Len(chunks)].id
    /\ UNCHANGED <<entities, paginator, alloc_vars, consensus_vars, ext_vars>>

\* len(positions_chunk) >= 1000
is_full_chunk(positions_chunk) == Len(positions_chunk) >= 1000

\* one query of get_token_liquidity_points: the one before the loop, or one pass
\* of "while len(positions_chunk) >= 1000"; result holds positions
FetchPositionsChunk ==
    /\ ppc = "query"
    /\ paginator = "token_holders"
    /\ LET positions_chunk == UpstreamPage(entities, last_id)
       IN  /\ calls' = Append(calls, [last_id |-> last_id, count |-> Len(positions_chunk)])
           /\ result' = result \o positions_chunk
           /\ IF is_full_chunk(positions_chunk)
              THEN /\ ppc' = "query"
                   /\ last_id' = positions_chunk[Len(positions_chunk)].id
              ELSE /\ ppc' = "returned"
                   /\ last_id' = last_id
    /\ UNCHANGED <<entities, paginator, alloc_vars, consensus_vars, ext_vars>>

PageNext == ExecutePage \/ FetchPositionsChunk

\* An upstream source that lags behind: it may answer a query as if the cursor
\* were the empty string or the id of the entity before the cursor's.
StaleCursors(cursor) ==
    {cursor, 0} \cup (IF cursor > EntityId(1) THEN {cursor - 3} ELSE {})

StaleEntities == {0, 1, 999, 1000, 1001, 2000, MaxEntities}

StalePageInit ==
    \* no allocation and no consensus pick in progress
    /\ contract_address = 1
    /\ reward = 0
    /\ fetched = [c \in SupportedContracts |-> NoBalances]
    /\ holdings = 0
    /\ stack = << >>
    /\ returned = EmptyRewards
    /\ apc = "done"
    /\ run = 1
    /\ first_returned = EmptyRewards
    /\ items = << >>
    /\ block = None
    /\ cpc = "done"
    /\ entities \in StaleEntities
    /\ last_id = 0
    /\ result = << >>
    /\ calls = << >>
    /\ paginator \in {"base", "token_holders"}
    /\ ppc = "query"
    \* no carry-over merge in progress
    /\ prev_balances = << >>
    /\ claimed_accounts = {}
    /\ period_rewards = EmptyRewards
    /\ unclaimed_balances = EmptyRewards
    /\ final_rewards = EmptyRewards
    /\ mpc = "merged"
    \* no validator selection in progress
    /\ operators = << >>
    /\ used_pubkeys = {}
    /\ registered_pubkeys = {}
    /\ selected = [operator |-> 0, public_key |-> 0, deposit_data_root |-> 0]
    /\ spc = "selected"
    /\ validator_params = [validators_nonce |-> 0, pool_balance |-> 0]
    /\ block_number = 0
    /\ validator_votes = << >>
    /\ vpc = "done"
    \* no rewards update in progress
    /\ chain = [rewards_nonce |-> 0, total_rewards |-> 0, total_fees |-> 0,
                rewards_updated_at_timestamp |-> 0]
    /\ network = "mainnet"
    /\ rewards_params = [rewards_nonce |-> 0, total_rewards |-> 0, total_fees |-> 0,
                         rewards_updated_at_timestamp |-> 0]
    /\ current_timestamp = 0
    /\ finalized_epoch = 0
    /\ beacon_validators = << >>
    /\ rframe = [next_update_time |-> 0, update_timestamp |-> 0, update_epoch |-> 0,
                 public_keys |-> 0, i |-> 0, fetched |-> {}, total_rewards |-> 0,
                 activated_validators |-> 0]
    /\ reward_votes = << >>
    /\ last_vote_total_rewards = -1
    /\ rpc = "idle"
    /\ tick = 0
    /\ mainpc = "loop"
    /\ failed_ticks = {}
    /\ tick_start_state = -1
    \* no interrupt received
    /\ interrupt_exit = FALSE
    /\ session = "open"
    \* no token points in progress
    /\ holder_positions = << >>
    /\ from_block = 0
    /\ to_block = 0
    /\ holder_points = NoBalances
    /\ tpc = "returned"
    \* no interval distributions in progress
    /\ distribute_events = << >>
    /\ distribution_start_block = 0
    /\ distribution_end_block = 0
    /\ blocks_interval = 1
    /\ distributions = << >>
    /\ dpc = "returned"
    \* no block-range scan in progress
    /\ scanner = "erc20_balances"
    /\ first_block = 0
    /\ start_block = 0
    /\ end_block = 0
    /\ blocks_spread = 0
    /\ scan_phase = "transfer"
    /\ held_events = [bound |-> FALSE, kind |-> "transfer", from |-> 0, to |-> 0]
    /\ ranges = << >>
    /\ scan_balances = << >>
    /\ scan_accounts = {}
    /\ applied = << >>
    /\ failures = 0
    /\ scpc = "returned"

\* one pass of the while True loop of execute_base_gql_paginated_query, the
\* upstream answering from any of its stale cursors
ExecutePageStale ==
    /\ ppc = "query"
    /\ paginator = "base"
    /\ Len(calls) < MaxQueries
    /\ \E answered \in StaleCursors(last_id) :
          LET chunks == UpstreamPage(entities, answered)
          IN  /\ calls' = Append(calls, [last_id |-> last_id, count |-> Len(chunks)])
              /\ result' = result \o chunks
              /\ IF is_short_page(chunks)
                 THEN /\ ppc' = "returned"
                      /\ last_id' = last_id
                 ELSE /\ ppc' = "query"
                      /\ last_id' = chunks[Len(chunks)].id
    /\ UNCHANGED <<entities, paginator, alloc_vars, consensus_vars, ext_vars>>

\* one query of get_token_liquidity_points, the upstream answering from any of
\* its stale cursors
FetchPositionsChunkStale ==
    /\ ppc = "query"
    /\ paginator = "token_holders"
    /\ Len(calls) < MaxQueries
    /\ \E answered \in StaleCursors(last_id) :
          LET positions_chunk == UpstreamPage(entities, answered)
          IN  /\ calls' = Append(calls, [last_id |-> last_id, count |-> Len(positions_chunk)])
              /\ result' = result \o positions_chunk
              /\ IF is_full_chunk(positions_chunk)
                 THEN /\ ppc' = "query"
                      /\ last_id' = positions_chunk[Len(positions_chunk)].id
                 ELSE /\ ppc' = "returned"
                      /\ last_id' = last_id
    /\ UNCHANGED <<entities, paginator, alloc_vars, consensus_vars, ext_vars>>

StalePageNext == ExecutePageStale \/ FetchPositionsChunkStale

\* ------------------------------------------------------------------------
\* Carry-over of the unclaimed balances
\* ------------------------------------------------------------------------

\* An account is written as its address (an integer of Addresses) in the checksum
\* rendering and as that integer plus 100 in the all-lowercase rendering.
LowercaseOf(address) == address + 100

\* the account is taken as the file writes it
as_written(account) == account

\* Web3.toChecksumAddress(account)
toChecksumAddress(account) == IF account > 100 THEN account - 100 ELSE account

\* int(data["amounts"][i]): the amounts of the file are decimal strings
RECURSIVE parse_int(_)
parse_int(digits) ==
    IF digits = << >> THEN 0
    ELSE 10 * parse_int(SubSeq(digits, 1, Len(digits) - 1)) + digits[Len(digits)]

\* the accounts of the previous merkle drop: alpha = 1 and beta = 3
CarryAccounts == {1, 3}

Tokens == {REWARD_TOKEN, "SWISE"}

TokenLists == {<<"SWISE">>, <<REWARD_TOKEN>>, <<"SWISE", REWARD_TOKEN>>}

\* "3" and "10"
AmountStrings == {<<3>>, <<1, 0>>}

\* the entries a claims file can hold for one account
PrevEntries(address) ==
    UNION {{[account |-> k, tokens |-> t, amounts |-> a] :
               k \in {address, LowercaseOf(address)},
               a \in [1..Len(t) -> AmountStrings]} : t \in TokenLists}

\* claims files: one entry per account, in any order
PrevFiles ==
    LET all == UNION {PrevEntries(a) : a \in CarryAccounts}
    IN  UNION {{f \in [1..n -> all] :
                   \A i, j \in 1..n :
                       i # j => toChecksumAddress(f[i].account)
                                    # toChecksumAddress(f[j].account)} :
               n \in 0..MaxPrevEntries}

\* the new allocation: nothing, alpha -> 3 of the reward token, and that with
\* beta -> 1 SWISE
PeriodRewards ==
    {EmptyRewards,
     (1 :> (REWARD_TOKEN :> 3)),
     (1 :> (REWARD_TOKEN :> 3)) @@ (3 :> ("SWISE" :> 1))}

\* for i, token in enumerate(data["tokens"]): unclaimed_balances[account][token] = ...
token_amounts(data) ==
    [t \in {data.tokens[i] : i \in DOMAIN data.tokens} |->
        LET i == CHOOSE x \in DOMAIN data.tokens :
                    /\ data.tokens[x] = t
                    /\ \A y \in DOMAIN data.tokens : data.tokens[y] = t => y <= x
        IN  parse_int(data.amounts[i])]

\* for account, data in prev_balances.items()
RECURSIVE unclaimed_loop(_, _, _, _)
unclaimed_loop(prev, k, claimed, unclaimed) ==
    IF k > Len(prev) THEN unclaimed
    ELSE LET account == toChecksumAddress(prev[k].account)
         IN  IF account \in claimed
             THEN unclaimed_loop(prev, k + 1, claimed, unclaimed)
             ELSE unclaimed_loop(prev, k + 1, claimed,
                      [a \in DOMAIN unclaimed \cup {account} |->
                          IF a = account THEN token_amounts(prev[k])
                          ELSE unclaimed[a]])

get_unclaimed_balances(prev, claimed) ==
    unclaimed_loop(prev, 1, claimed, EmptyRewards)

CarryInit ==
    \* no allocation, no consensus pick and no paginated query in progress
    /\ contract_address = 1
    /\ reward = 0
    /\ fetched = [c \in SupportedContracts |-> NoBalances]
    /\ holdings = 0
    /\ stack = << >>
    /\ returned = EmptyRewards
    /\ apc = "done"
    /\ run = 1
    /\ first_returned = EmptyRewards
    /\ items = << >>
    /\ block = None
    /\ cpc = "done"
    /\ entities = 0
    /\ last_id = 0
    /\ result = << >>
    /\ calls = << >>
    /\ paginator = "base"
    /\ ppc = "returned"
    /\ prev_balances \in PrevFiles
    /\ claimed_accounts \in SUBSET CarryAccounts
    /\ period_rewards \in PeriodRewards
    /\ unclaimed_balances = EmptyRewards
    /\ final_rewards = EmptyRewards
    /\ mpc = "start"
    \* no validator selection in progress
    /\ operators = << >>
    /\ used_pubkeys = {}
    /\ registered_pubkeys = {}
    /\ selected = [operator |-> 0, public_key |-> 0, deposit_data_root |-> 0]
    /\ spc = "selected"
    /\ validator_params = [validators_nonce |-> 0, pool_balance |-> 0]
    /\ block_number = 0
    /\ validator_votes = << >>
    /\ vpc = "done"
    \* no rewards update in progress
    /\ chain = [rewards_nonce |-> 0, total_rewards |-> 0, total_fees |-> 0,
                rewards_updated_at_timestamp |-> 0]
    /\ network = "mainnet"
    /\ rewards_params = [rewards_nonce |-> 0, total_rewards |-> 0, total_fees |-> 0,
                         rewards_updated_at_timestamp |-> 0]
    /\ current_timestamp = 0
    /\ finalized_epoch = 0
    /\ beacon_validators = << >>
    /\ rframe = [next_update_time |-> 0, update_timestamp |-> 0, update_epoch |-> 0,
                 public_keys |-> 0, i |-> 0, fetched |-> {}, total_rewards |-> 0,
                 activated_validators |-> 0]
    /\ reward_votes = << >>
    /\ last_vote_total_rewards = -1
    /\ rpc = "idle"
    /\ tick = 0
    /\ mainpc = "loop"
    /\ failed_ticks = {}
    /\ tick_start_state = -1
    \* no interrupt received
    /\ interrupt_exit = FALSE
    /\ session = "open"
    \* no token points in progress
    /\ holder_positions = << >>
    /\ from_block = 0
    /\ to_block = 0
    /\ holder_points = NoBalances
    /\ tpc = "returned"
    \* no interval distributions in progress
    /\ distribute_events = << >>
    /\ distribution_start_block = 0
    /\ distribution_end_block = 0
    /\ blocks_interval = 1
    /\ distributions = << >>
    /\ dpc = "returned"
    \* no block-range scan in progress
    /\ scanner = "erc20_balances"
    /\ first_block = 0
    /\ start_block = 0
    /\ end_block = 0
    /\ blocks_spread = 0
    /\ scan_phase = "transfer"
    /\ held_events = [bound |-> FALSE, kind |-> "transfer", from |-> 0, to |-> 0]
    /\ ranges = << >>
    /\ scan_balances = << >>
    /\ scan_accounts = {}
    /\ applied = << >>
    /\ failures = 0
    /\ scpc = "returned"

\* unclaimed = get_unclaimed_balances(url, claimed_accounts, endpoint)
GetUnclaimedBalances ==
    /\ mpc = "start"
    /\ unclaimed_balances' = get_unclaimed_balances(prev_balances, claimed_accounts)
    /\ mpc' = "unclaimed"
    /\ UNCHANGED <<prev_balances, claimed_accounts, period_rewards, final_rewards>>
    /\ UNCHANGED <<alloc_vars, consensus_vars, page_vars, validators_vars, rewards_vars,
                   main_vars, points_vars, dist_vars, scan_vars>>

\* the remainder is merged into the new Rewards by per-token addition
MergeUnclaimed ==
    /\ mpc = "unclaimed"
    /\ final_rewards' = merge_rewards(period_rewards, unclaimed_balances)
    /\ mpc' = "merged"
    /\ UNCHANGED <<prev_balances, claimed_accounts, period_rewards, unclaimed_balances>>
    /\ UNCHANGED <<alloc_vars, consensus_vars, page_vars, validators_vars, rewards_vars,
                   main_vars, points_vars, dist_vars, scan_vars>>

CarryNext == GetUnclaimedBalances \/ MergeUnclaimed

\* ------------------------------------------------------------------------
\* Validator selection
\* ------------------------------------------------------------------------

\* operators 7 and 8 with files of MaxFileLen entries, and operator 9 of the
\* selection scenario with a file of 7 entries
OperatorIds == {7, 8}

ScenarioOperator == 9

\* None
NoDeposit == [operator |-> 0, public_key |-> 0, deposit_data_root |-> 0]

\* operator["depositDataMerkleProofs"] of an operator that has a file
IpfsHash(id) == IF id = 7 THEN "/ipfs/7" ELSE IF id = 8 THEN "/ipfs/8" ELSE "/ipfs/9"

\* the public key at index i (from 0) of the file of operator id
PubKey(id, i) == 10 * id + i

DepositFile(id, n) ==
    [k \in 1..n |-> [public_key |-> PubKey(id, k - 1),
                     deposit_data_root |-> 1000 + PubKey(id, k - 1)]]

\* deposit_datum = await ipfs_fetch(merkle_proofs)
ipfs_fetch(merkle_proofs) ==
    IF merkle_proofs = IpfsHash(7) THEN DepositFile(7, MaxFileLen)
    ELSE IF merkle_proofs = IpfsHash(8) THEN DepositFile(8, MaxFileLen)
    ELSE DepositFile(ScenarioOperator, 7)

\* Web3.toChecksumAddress(operator["id"]) with int(operator["depositDataIndex"])
OperatorConfigs(id) ==
    {[id |-> LowercaseOf(id), depositDataMerkleProofs |-> p, depositDataIndex |-> i] :
        p \in {"", IpfsHash(id)}, i \in 0..MaxFileLen}

\* the operators the query can return: any of 7 and 8, in any order
OperatorLists ==
    UNION {{ops \in [1..n -> UNION {OperatorConfigs(id) : id \in OperatorIds}] :
               \A i, j \in 1..n : i # j => ops[i].id # ops[j].id} : n \in 0..2}

GenericKeys == {PubKey(id, i) : id \in OperatorIds, i \in 0..(MaxFileLen - 1)}

\* the registration query finds a registration of any public key
always_can_register_validator(registered, public_key) == TRUE

\* len(registrations) == 0
can_register_validator(registered, public_key) == public_key \notin registered

\* public_key not in used_pubkeys and await can_register_validator(...)
can_register_of(used, registered, public_key) ==
    public_key \notin used /\ can_register_validator(registered, public_key)

\* while deposit_data_index < max_deposit_data_index and not can_register
RECURSIVE advance_index(_, _, _, _)
advance_index(deposit_datum, deposit_data_index, used, registered) ==
    LET max_deposit_data_index == Len(deposit_datum) - 1
        public_key == deposit_datum[deposit_data_index + 1].public_key
    IN  IF /\ deposit_data_index < max_deposit_data_index
           /\ ~can_register_of(used, registered, public_key)
        THEN advance_index(deposit_datum, deposit_data_index + 1, used, registered)
        ELSE deposit_data_index

\* for operator in operators
RECURSIVE select_loop(_, _, _, _)
select_loop(ops, k, used, registered) ==
    IF k > Len(ops) THEN NoDeposit
    ELSE LET operator == ops[k]
             merkle_proofs == operator.depositDataMerkleProofs
             operator_address == toChecksumAddress(operator.id)
             deposit_datum == ipfs_fetch(merkle_proofs)
             max_deposit_data_index == Len(deposit_datum) - 1
         IN  IF merkle_proofs = "" THEN select_loop(ops, k + 1, used, registered)
             ELSE IF operator.depositDataIndex > max_deposit_data_index
             THEN select_loop(ops, k + 1, used, registered)
             ELSE LET deposit_data_index ==
                          advance_index(deposit_datum, operator.depositDataIndex,
                                        used, registered)
                      selected_deposit_data == deposit_datum[deposit_data_index + 1]
                  IN  IF can_register_of(used, registered,
                                         selected_deposit_data.public_key)
                      THEN [operator |-> operator_address,
                            public_key |-> selected_deposit_data.public_key,
                            deposit_data_root |-> selected_deposit_data.deposit_data_root]
                      ELSE select_loop(ops, k + 1, used, registered)

select_validator(ops, used, registered) == select_loop(ops, 1, used, registered)

SelectInit ==
    \* no allocation, no consensus pick, no paginated query, no carry-over merge
    /\ contract_address = 1
    /\ reward = 0
    /\ fetched = [c \in SupportedContracts |-> NoBalances]
    /\ holdings = 0
    /\ stack = << >>
    /\ returned = EmptyRewards
    /\ apc = "done"
    /\ run = 1
    /\ first_returned = EmptyRewards
    /\ items = << >>
    /\ block = None
    /\ cpc = "done"
    /\ entities = 0
    /\ last_id = 0
    /\ result = << >>
    /\ calls = << >>
    /\ paginator = "base"
    /\ ppc = "returned"
    /\ prev_balances = << >>
    /\ claimed_accounts = {}
    /\ period_rewards = EmptyRewards
    /\ unclaimed_balances = EmptyRewards
    /\ final_rewards = EmptyRewards
    /\ mpc = "merged"
    \* every public key of the files is free, used or registered; in the
    \* scenario the operator stands at index 5, whose key is registered or used
    /\ \/ /\ operators \in OperatorLists
          /\ \E status \in [GenericKeys -> {"free", "used", "registered"}] :
                /\ used_pubkeys = {k \in GenericKeys : status[k] = "used"}
                /\ registered_pubkeys = {k \in GenericKeys : status[k] = "registered"}
       \/ /\ operators \in
                {<<[id |-> LowercaseOf(ScenarioOperator),
                    depositDataMerkleProofs |-> IpfsHash(ScenarioOperator),
                    depositDataIndex |-> 5]>>}
          /\ \E taken \in (SUBSET {PubKey(ScenarioOperator, 5),
                                    PubKey(ScenarioOperator, 6)}) \X {"used", "registered"} :
                /\ used_pubkeys = (IF taken[2] = "used" THEN taken[1] ELSE {})
                /\ registered_pubkeys = (IF taken[2] = "registered" THEN taken[1] ELSE {})
    /\ selected = NoDeposit
    /\ spc = "start"
    /\ validator_params = [validators_nonce |-> 0, pool_balance |-> 0]
    /\ block_number = 0
    /\ validator_votes = << >>
    /\ vpc = "done"
    \* no rewards update in progress
    /\ chain = [rewards_nonce |-> 0, total_rewards |-> 0, total_fees |-> 0,
                rewards_updated_at_timestamp |-> 0]
    /\ network = "mainnet"
    /\ rewards_params = [rewards_nonce |-> 0, total_rewards |-> 0, total_fees |-> 0,
                         rewards_updated_at_timestamp |-> 0]
    /\ current_timestamp = 0
    /\ finalized_epoch = 0
    /\ beacon_validators = << >>
    /\ rframe = [next_update_time |-> 0, update_timestamp |-> 0, update_epoch |-> 0,
                 public_keys |-> 0, i |-> 0, fetched |-> {}, total_rewards |-> 0,
                 activated_validators |-> 0]
    /\ reward_votes = << >>
    /\ last_vote_total_rewards = -1
    /\ rpc = "idle"
    /\ tick = 0
    /\ mainpc = "loop"
    /\ failed_ticks = {}
    /\ tick_start_state = -1
    \* no interrupt received
    /\ interrupt_exit = FALSE
    /\ session = "open"
    \* no token points in progress
    /\ holder_positions = << >>
    /\ from_block = 0
    /\ to_block = 0
    /\ holder_points = NoBalances
    /\ tpc = "returned"
    \* no interval distributions in progress
    /\ distribute_events = << >>
    /\ distribution_start_block = 0
    /\ distribution_end_block = 0
    /\ blocks_interval = 1
    /\ distributions = << >>
    /\ dpc = "returned"
    \* no block-range scan in progress
    /\ scanner = "erc20_balances"
    /\ first_block = 0
    /\ start_block = 0
    /\ end_block = 0
    /\ blocks_spread = 0
    /\ scan_phase = "transfer"
    /\ held_events = [bound |-> FALSE, kind |-> "transfer", from |-> 0, to |-> 0]
    /\ ranges = << >>
    /\ scan_balances = << >>
    /\ scan_accounts = {}
    /\ applied = << >>
    /\ failures = 0
    /\ scpc = "returned"

\* select_validator(block_number, used_pubkeys): every query is made at block_number
SelectValidator ==
    /\ spc = "start"
    /\ selected' = select_validator(operators, used_pubkeys, registered_pubkeys)
    /\ spc' = "selected"
    /\ UNCHANGED <<operators, used_pubkeys, registered_pubkeys, validator_params,
                   block_number, validator_votes, vpc>>
    /\ UNCHANGED <<alloc_vars, consensus_vars, page_vars, carry_vars, rewards_vars,
                   main_vars, points_vars, dist_vars, scan_vars>>

SelectNext == SelectValidator

\* ------------------------------------------------------------------------
\* ValidatorsController.process
\* ------------------------------------------------------------------------

\* Web3.toWei(32, "ether"); pool balances are counted in ether
validator_deposit == 32

VALIDATOR_VOTE_FILENAME == "validator-vote.json"

\* the blocks process can be called for; the chain's head is the last one
ValidatorBlocks == {14583706, 14583707}

LatestBlock == 14583707

\* validatorRegistrations[0].validatorsDepositRoot as of each block
ValidatorsDepositRoots == [b \in ValidatorBlocks |-> b - 14583000]

\* the root is read at the head of the chain
get_latest_validators_deposit_root(at_block) == ValidatorsDepositRoots[LatestBlock]

\* result["validatorRegistrations"][0]["validatorsDepositRoot"] at block_number
get_validators_deposit_root(at_block) == ValidatorsDepositRoots[at_block]

PoolBalances == {0, 31, 32, 33, 64}

ValidatorsNonces == {1000, 1001}

\* only an empty pool stops the process
is_empty_pool(pool_balance) == pool_balance <= 0

\* pool_balance < 32 ETH short-circuits the whole operation
is_low_balance(pool_balance) == pool_balance < validator_deposit

ProcessInit ==
    \* no allocation, no consensus pick, no paginated query, no carry-over merge
    /\ contract_address = 1
    /\ reward = 0
    /\ fetched = [c \in SupportedContracts |-> NoBalances]
    /\ holdings = 0
    /\ stack = << >>
    /\ returned = EmptyRewards
    /\ apc = "done"
    /\ run = 1
    /\ first_returned = EmptyRewards
    /\ items = << >>
    /\ block = None
    /\ cpc = "done"
    /\ entities = 0
    /\ last_id = 0
    /\ result = << >>
    /\ calls = << >>
    /\ paginator = "base"
    /\ ppc = "returned"
    /\ prev_balances = << >>
    /\ claimed_accounts = {}
    /\ period_rewards = EmptyRewards
    /\ unclaimed_balances = EmptyRewards
    /\ final_rewards = EmptyRewards
    /\ mpc = "merged"
    /\ operators \in OperatorLists
    /\ used_pubkeys = {}
    /\ registered_pubkeys \in SUBSET GenericKeys
    /\ selected = NoDeposit
    /\ spc = "selected"
    /\ validator_params \in [validators_nonce : ValidatorsNonces,
                              pool_balance : PoolBalances]
    /\ block_number \in ValidatorBlocks
    /\ validator_votes = << >>
    /\ vpc = "start"
    \* no rewards update in progress
    /\ chain = [rewards_nonce |-> 0, total_rewards |-> 0, total_fees |-> 0,
                rewards_updated_at_timestamp |-> 0]
    /\ network = "mainnet"
    /\ rewards_params = [rewards_nonce |-> 0, total_rewards |-> 0, total_fees |-> 0,
                         rewards_updated_at_timestamp |-> 0]
    /\ current_timestamp = 0
    /\ finalized_epoch = 0
    /\ beacon_validators = << >>
    /\ rframe = [next_update_time |-> 0, update_timestamp |-> 0, update_epoch |-> 0,
                 public_keys |-> 0, i |-> 0, fetched |-> {}, total_rewards |-> 0,
                 activated_validators |-> 0]
    /\ reward_votes = << >>
    /\ last_vote_total_rewards = -1
    /\ rpc = "idle"
    /\ tick = 0
    /\ mainpc = "loop"
    /\ failed_ticks = {}
    /\ tick_start_state = -1
    \* no interrupt received
    /\ interrupt_exit = FALSE
    /\ session = "open"
    \* no token points in progress
    /\ holder_positions = << >>
    /\ from_block = 0
    /\ to_block = 0
    /\ holder_points = NoBalances
    /\ tpc = "returned"
    \* no interval distributions in progress
    /\ distribute_events = << >>
    /\ distribution_start_block = 0
    /\ distribution_end_block = 0
    /\ blocks_interval = 1
    /\ distributions = << >>
    /\ dpc = "returned"
    \* no block-range scan in progress
    /\ scanner = "erc20_balances"
    /\ first_block = 0
    /\ start_block = 0
    /\ end_block = 0
    /\ blocks_spread = 0
    /\ scan_phase = "transfer"
    /\ held_events = [bound |-> FALSE, kind |-> "transfer", from |-> 0, to |-> 0]
    /\ ranges = << >>
    /\ scan_balances = << >>
    /\ scan_accounts = {}
    /\ applied = << >>
    /\ failures = 0
    /\ scpc = "returned"

\* process(voting_params, block_number): the pool balance check
ProcessStart ==
    /\ vpc = "start"
    /\ vpc' = IF is_low_balance(validator_params.pool_balance) THEN "done" ELSE "select"
    /\ UNCHANGED <<operators, used_pubkeys, registered_pubkeys, selected, spc,
                   validator_params, block_number, validator_votes>>
    /\ UNCHANGED <<alloc_vars, consensus_vars, page_vars, carry_vars, rewards_vars,
                   main_vars, points_vars, dist_vars, scan_vars>>

\* the operators are iterated for a registrable deposit
ProcessSelect ==
    /\ vpc = "select"
    /\ selected' = select_validator(operators, used_pubkeys, registered_pubkeys)
    /\ vpc' = IF selected' = NoDeposit THEN "done" ELSE "root"
    /\ UNCHANGED <<operators, used_pubkeys, registered_pubkeys, spc,
                   validator_params, block_number, validator_votes>>
    /\ UNCHANGED <<alloc_vars, consensus_vars, page_vars, carry_vars, rewards_vars,
                   main_vars, points_vars, dist_vars, scan_vars>>

\* the root is taken after the selection, from the same block, and the vote
\* (nonce, [deposit_data], validators_deposit_root) is submitted
ProcessVote ==
    /\ vpc = "root"
    /\ validator_votes' = Append(validator_votes,
           [name |-> VALIDATOR_VOTE_FILENAME,
            nonce |-> validator_params.validators_nonce,
            deposit_data |-> <<selected>>,
            validators_deposit_root |-> get_validators_deposit_root(block_number)])
    /\ vpc' = "done"
    /\ UNCHANGED <<operators, used_pubkeys, registered_pubkeys, selected, spc,
                   validator_params, block_number>>
    /\ UNCHANGED <<alloc_vars, consensus_vars, page_vars, carry_vars, rewards_vars,
                   main_vars, points_vars, dist_vars, scan_vars>>

ProcessNext == ProcessStart \/ ProcessSelect \/ ProcessVote

\* ------------------------------------------------------------------------
\* get_token_liquidity_points: the points of the token holders
\* ------------------------------------------------------------------------

EMPTY_ADDR_HEX == 0

\* the holders of the distributor token: the zero address, account 1 in both
\* renderings and account 2
HolderAccounts == {EMPTY_ADDR_HEX, 1, 2, LowercaseOf(1)}

\* what the subgraph reports of a holder, for the blocks 10 to 12
PositionKinds ==
    [account : HolderAccounts, amount : {0, 3}, distributorPoints : {0, 4},
     updatedAtBlock : {9, 10, 11}]

HolderPositions == UNION {[1..n -> PositionKinds] : n \in 0..MaxPositions}

\* the points of the position are kept whenever it was updated
kept_account_points(position, from) == position.distributorPoints

\* prev_account_points, 0 when from_block > updated_at_block
prev_account_points(position, from) ==
    IF from > position.updatedAtBlock THEN 0 ELSE position.distributorPoints

\* updated_at_block, from_block when from_block > updated_at_block
updated_at_block(position, from) ==
    IF from > position.updatedAtBlock THEN from ELSE position.updatedAtBlock

\* prev_account_points + principal * (to_block - updated_at_block)
account_points(position, from, to) ==
    prev_account_points(position, from)
        + position.amount * (to - updated_at_block(position, from))

\* points.get(account, 0)
points_get(points, account) ==
    IF account \in DOMAIN points THEN points[account] ELSE 0

\* for position in positions
RECURSIVE points_loop(_, _, _, _, _)
points_loop(positions, k, from, to, acc) ==
    IF k > Len(positions) THEN acc
    ELSE LET account == toChecksumAddress(positions[k].account)
             pts == account_points(positions[k], from, to)
         IN  IF account = EMPTY_ADDR_HEX \/ pts <= 0
             THEN points_loop(positions, k + 1, from, to, acc)
             ELSE points_loop(positions, k + 1, from, to,
                      [points |-> [a \in DOMAIN acc.points \cup {account} |->
                                      IF a = account
                                      THEN points_get(acc.points, account) + pts
                                      ELSE acc.points[a]],
                       total_points |-> acc.total_points + pts])

\* the positions are all fetched: the balances are to be processed
PointsInit ==
    \* nothing but the token points is in progress
    /\ contract_address = 1
    /\ reward = 0
    /\ fetched = [c \in SupportedContracts |-> NoBalances]
    /\ holdings = 0
    /\ stack = << >>
    /\ returned = EmptyRewards
    /\ apc = "done"
    /\ run = 1
    /\ first_returned = EmptyRewards
    /\ entities = 0
    /\ last_id = 0
    /\ result = << >>
    /\ calls = << >>
    /\ paginator = "base"
    /\ ppc = "returned"
    /\ items = << >>
    /\ block = [id |-> -1, timestamp |-> -1]
    /\ cpc = "done"
    /\ prev_balances = << >>
    /\ claimed_accounts = {}
    /\ period_rewards = EmptyRewards
    /\ unclaimed_balances = EmptyRewards
    /\ final_rewards = EmptyRewards
    /\ mpc = "merged"
    /\ operators = << >>
    /\ used_pubkeys = {}
    /\ registered_pubkeys = {}
    /\ selected = [operator |-> 0, public_key |-> 0, deposit_data_root |-> 0]
    /\ spc = "selected"
    /\ validator_params = [validators_nonce |-> 0, pool_balance |-> 0]
    /\ block_number = 0
    /\ validator_votes = << >>
    /\ vpc = "done"
    /\ chain = [rewards_nonce |-> 0, total_rewards |-> 0, total_fees |-> 0,
                rewards_updated_at_timestamp |-> 0]
    /\ network = "mainnet"
    /\ rewards_params = [rewards_nonce |-> 0, total_rewards |-> 0, total_fees |-> 0,
                         rewards_updated_at_timestamp |-> 0]
    /\ current_timestamp = 0
    /\ finalized_epoch = 0
    /\ beacon_validators = << >>
    /\ rframe = [next_update_time |-> 0, update_timestamp |-> 0, update_epoch |-> 0,
                 public_keys |-> 0, i |-> 0, fetched |-> {}, total_rewards |-> 0,
                 activated_validators |-> 0]
    /\ reward_votes = << >>
    /\ last_vote_total_rewards = -1
    /\ rpc = "idle"
    /\ tick = 0
    /\ mainpc = "loop"
    /\ failed_ticks = {}
    /\ tick_start_state = -1
    /\ interrupt_exit = FALSE
    /\ session = "open"
    /\ holder_positions \in HolderPositions
    /\ from_block = 10
    /\ to_block = 12
    /\ holder_points = NoBalances
    /\ tpc = "process"
    \* no interval distributions in progress
    /\ distribute_events = << >>
    /\ distribution_start_block = 0
    /\ distribution_end_block = 0
    /\ blocks_interval = 1
    /\ distributions = << >>
    /\ dpc = "returned"
    \* no block-range scan in progress
    /\ scanner = "erc20_balances"
    /\ first_block = 0
    /\ start_block = 0
    /\ end_block = 0
    /\ blocks_spread = 0
    /\ scan_phase = "transfer"
    /\ held_events = [bound |-> FALSE, kind |-> "transfer", from |-> 0, to |-> 0]
    /\ ranges = << >>
    /\ scan_balances = << >>
    /\ scan_accounts = {}
    /\ applied = << >>
    /\ failures = 0
    /\ scpc = "returned"

\* process balances
GetTokenLiquidityPoints ==
    /\ tpc = "process"
    /\ LET acc == points_loop(holder_positions, 1, from_block, to_block,
                              [points |-> << >>, total_points |-> 0])
       IN  holder_points' = Balances(acc.total_points, acc.points)
    /\ tpc' = "returned"
    /\ UNCHANGED <<holder_positions, from_block, to_block>>
    /\ UNCHANGED <<alloc_vars, consensus_vars, page_vars, carry_vars, validators_vars,
                   rewards_vars, main_vars, dist_vars, scan_vars>>

PointsNext == GetTokenLiquidityPoints

\* ------------------------------------------------------------------------
\* get_distributions: the rewards of the DistributionAdded events per interval
\* ------------------------------------------------------------------------

\* the token the events distribute
DistributedToken == 6

\* a DistributionAdded event of beneficiary 1, its addresses in lowercase
EventKinds ==
    [token : {LowercaseOf(DistributedToken)}, beneficiary : {LowercaseOf(1)},
     amount : 0..MaxAmount, startBlock : 0..MaxDistBlock, endBlock : 0..MaxDistBlock]

\* an event of beneficiary 1 followed by one of beneficiary 2 over the blocks 1 to 3
TwoEvents(first) ==
    <<first, [token |-> LowercaseOf(DistributedToken), beneficiary |-> 2,
              amount |-> 5, startBlock |-> 1, endBlock |-> 3]>>

Distribution(beneficiary, token, value) ==
    [beneficiary |-> beneficiary, token |-> token, reward |-> value]

\* distributions.setdefault(block, []).append(distribution)
setdefault_append(dists, at_block, distribution) ==
    [b \in DOMAIN dists \cup {at_block} |->
        IF b = at_block
        THEN (IF b \in DOMAIN dists THEN dists[b] ELSE << >>) \o <<distribution>>
        ELSE dists[b]]

\* while start != end, for one event
RECURSIVE interval_loop(_, _, _, _, _)
interval_loop(event, interval, start, end, dists) ==
    LET beneficiary == toChecksumAddress(event.beneficiary)
        token == toChecksumAddress(event.token)
        total_blocks == event.endBlock - event.startBlock
        reward_per_block == event.amount \div total_blocks
        interval_reward == reward_per_block * interval
    IN  IF start = end THEN dists
        ELSE IF start + interval > end
        THEN LET last_interval == end - start
                 last_reward == IF end = event.endBlock
                                THEN reward_per_block * last_interval
                                         + (event.amount - reward_per_block * total_blocks)
                                ELSE reward_per_block * last_interval
             IN  IF last_reward > 0
                 THEN setdefault_append(dists, start + last_interval,
                                        Distribution(beneficiary, token, last_reward))
                 ELSE dists
        ELSE interval_loop(event, interval, start + interval, end,
                 IF interval_reward > 0
                 THEN setdefault_append(dists, start + interval,
                                        Distribution(beneficiary, token, interval_reward))
                 ELSE dists)

\* for event in distribute_events
RECURSIVE events_loop(_, _, _, _, _, _)
events_loop(events, k, window_start, window_end, interval, dists) ==
    IF k > Len(events) THEN dists
    ELSE LET event == events[k]
         IN  IF \/ event.endBlock <= window_start
                \/ event.startBlock >= window_end
                \/ event.endBlock - event.startBlock <= 0
             THEN events_loop(events, k + 1, window_start, window_end, interval, dists)
             ELSE events_loop(events, k + 1, window_start, window_end, interval,
                      interval_loop(event, interval,
                          IF window_start > event.startBlock
                          THEN window_start ELSE event.startBlock,
                          IF window_end < event.endBlock
                          THEN window_end ELSE event.endBlock,
                          dists))

\* get_distributions is called: the events are those of the contract's log
DistributionsInit ==
    \* nothing but the interval distributions is in progress
    /\ contract_address = 1
    /\ reward = 0
    /\ fetched = [c \in SupportedContracts |-> NoBalances]
    /\ holdings = 0
    /\ stack = << >>
    /\ returned = EmptyRewards
    /\ apc = "done"
    /\ run = 1
    /\ first_returned = EmptyRewards
    /\ entities = 0
    /\ last_id = 0
    /\ result = << >>
    /\ calls = << >>
    /\ paginator = "base"
    /\ ppc = "returned"
    /\ items = << >>
    /\ block = [id |-> -1, timestamp |-> -1]
    /\ cpc = "done"
    /\ prev_balances = << >>
    /\ claimed_accounts = {}
    /\ period_rewards = EmptyRewards
    /\ unclaimed_balances = EmptyRewards
    /\ final_rewards = EmptyRewards
    /\ mpc = "merged"
    /\ operators = << >>
    /\ used_pubkeys = {}
    /\ registered_pubkeys = {}
    /\ selected = [operator |-> 0, public_key |-> 0, deposit_data_root |-> 0]
    /\ spc = "selected"
    /\ validator_params = [validators_nonce |-> 0, pool_balance |-> 0]
    /\ block_number = 0
    /\ validator_votes = << >>
    /\ vpc = "done"
    /\ chain = [rewards_nonce |-> 0, total_rewards |-> 0, total_fees |-> 0,
                rewards_updated_at_timestamp |-> 0]
    /\ network = "mainnet"
    /\ rewards_params = [rewards_nonce |-> 0, total_rewards |-> 0, total_fees |-> 0,
                         rewards_updated_at_timestamp |-> 0]
    /\ current_timestamp = 0
    /\ finalized_epoch = 0
    /\ beacon_validators = << >>
    /\ rframe = [next_update_time |-> 0, update_timestamp |-> 0, update_epoch |-> 0,
                 public_keys |-> 0, i |-> 0, fetched |-> {}, total_rewards |-> 0,
                 activated_validators |-> 0]
    /\ reward_votes = << >>
    /\ last_vote_total_rewards = -1
    /\ rpc = "idle"
    /\ tick = 0
    /\ mainpc = "loop"
    /\ failed_ticks = {}
    /\ tick_start_state = -1
    /\ interrupt_exit = FALSE
    /\ session = "open"
    /\ holder_positions = << >>
    /\ from_block = 0
    /\ to_block = 0
    /\ holder_points = NoBalances
    /\ tpc = "returned"
    /\ distribute_events \in {<<e>> : e \in EventKinds}
                              \cup {TwoEvents(e) : e \in {x \in EventKinds : x.amount = 3}}
    /\ distribution_start_block \in {0, 1}
    /\ distribution_end_block \in {MaxDistBlock - 1, MaxDistBlock}
    /\ blocks_interval \in 1..MaxInterval
    /\ distributions = << >>
    /\ dpc = "start"
    \* no block-range scan in progress
    /\ scanner = "erc20_balances"
    /\ first_block = 0
    /\ start_block = 0
    /\ end_block = 0
    /\ blocks_spread = 0
    /\ scan_phase = "transfer"
    /\ held_events = [bound |-> FALSE, kind |-> "transfer", from |-> 0, to |-> 0]
    /\ ranges = << >>
    /\ scan_balances = << >>
    /\ scan_accounts = {}
    /\ applied = << >>
    /\ failures = 0
    /\ scpc = "returned"

GetDistributions ==
    /\ dpc = "start"
    /\ distributions' = events_loop(distribute_events, 1, distribution_start_block,
                                    distribution_end_block, blocks_interval, << >>)
    /\ dpc' = "returned"
    /\ UNCHANGED <<distribute_events, distribution_start_block, distribution_end_block,
                   blocks_interval>>
    /\ UNCHANGED <<alloc_vars, consensus_vars, page_vars, carry_vars, validators_vars,
                   rewards_vars, main_vars, points_vars, scan_vars>>

DistributionsNext == GetDistributions

\* ------------------------------------------------------------------------
\* Block-range scans of contract events: get_erc20_token_balances,
\* get_token_participated_accounts, get_uniswap_v3_token_owner_liquidity
\* ------------------------------------------------------------------------

\* blocks_spread = 200_000, in units of 100,000 blocks
BLOCKS_SPREAD == 2

ScanBlocks == 0..MaxScanBlock

\* the Transfer event of block b: a mint to account 10 + b in the even blocks,
\* a transfer from the account of the block before in the odd ones
TransferAt(b) ==
    [from |-> IF b % 2 = 0 THEN EMPTY_ADDR_HEX ELSE 10 + b - 1, to |-> 10 + b,
     value |-> 1]

\* the IncreaseLiquidity and the DecreaseLiquidity event of block b, both of
\* token id b
LiquidityAt(kind, b) ==
    [tokenId |-> b, liquidity |-> IF kind = "increase" THEN 2 ELSE 1]

\* the token_id_to_owner argument
token_id_to_owner == [id \in ScanBlocks |-> 10 + id]

NoEvents == [bound |-> FALSE, kind |-> "transfer", from |-> 0, to |-> 0]

\* the events of the log that applied counts
AppliedKeys == {"transfer", "increase", "decrease"} \X ScanBlocks

\* to_block of an attempt
to_block_of(start, spread, end) ==
    IF start + spread >= end THEN end ELSE start + spread

\* balances.get(account, Wei(0)) and owner_to_liquidity.setdefault(owner, Wei(0))
balance_get(balances, account) ==
    IF account \in DOMAIN balances THEN balances[account] ELSE 0

balance_set(balances, account, value) ==
    [a \in DOMAIN balances \cup {account} |->
        IF a = account THEN value ELSE balances[a]]

\* get_erc20_token_balances: for transfer_event in transfer_events
RECURSIVE apply_transfers(_, _, _)
apply_transfers(b, to, balances) ==
    IF b > to THEN balances
    ELSE LET event == TransferAt(b)
             credited == IF event.to # EMPTY_ADDR_HEX
                         THEN balance_set(balances, event.to,
                                          balance_get(balances, event.to) + event.value)
                         ELSE balances
             debited == IF event.from # EMPTY_ADDR_HEX
                        THEN balance_set(credited, event.from,
                                         balance_get(credited, event.from) - event.value)
                        ELSE credited
         IN  apply_transfers(b + 1, to, debited)

\* get_token_participated_accounts: for transfer_event in transfer_events
transfer_accounts(from, to) ==
    UNION {{TransferAt(b).to, TransferAt(b).from} : b \in from..to} \ {EMPTY_ADDR_HEX}

\* process increase liquidity events
RECURSIVE apply_increase(_, _, _, _)
apply_increase(kind, b, to, liquidity) ==
    IF b > to THEN liquidity
    ELSE LET event == LiquidityAt(kind, b)
             owner == token_id_to_owner[event.tokenId]
         IN  apply_increase(kind, b + 1, to,
                 balance_set(liquidity, owner,
                             balance_get(liquidity, owner) + event.liquidity))

\* process decrease liquidity events
RECURSIVE apply_decrease(_, _, _, _)
apply_decrease(kind, b, to, liquidity) ==
    IF b > to THEN liquidity
    ELSE LET event == LiquidityAt(kind, b)
             owner == token_id_to_owner[event.tokenId]
             prev_liquidity == balance_get(liquidity, owner)
         IN  apply_decrease(kind, b + 1, to,
                 IF prev_liquidity - event.liquidity <= 0
                 THEN [a \in DOMAIN liquidity \ {owner} |-> liquidity[a]]
                 ELSE balance_set(liquidity, owner, prev_liquidity - event.liquidity))

\* the loop over the events a scanner has at hand, by the phase it is in
process_events(phase, events, balances) ==
    IF phase = "transfer" THEN apply_transfers(events.from, events.to, balances)
    ELSE IF phase = "increase"
    THEN apply_increase(events.kind, events.from, events.to, balances)
    ELSE apply_decrease(events.kind, events.from, events.to, balances)

\* the events at hand are counted as processed once more
count_applied(counts, events) ==
    [key \in AppliedKeys |->
        IF key[1] = events.kind /\ key[2] \in events.from..events.to
        THEN counts[key] + 1 ELSE counts[key]]

\* a scan is called for the blocks first_block to end_block
ScanInit ==
    \* nothing but a block-range scan is in progress
    /\ contract_address = 1
    /\ reward = 0
    /\ fetched = [c \in SupportedContracts |-> NoBalances]
    /\ holdings = 0
    /\ stack = << >>
    /\ returned = EmptyRewards
    /\ apc = "done"
    /\ run = 1
    /\ first_returned = EmptyRewards
    /\ entities = 0
    /\ last_id = 0
    /\ result = << >>
    /\ calls = << >>
    /\ paginator = "base"
    /\ ppc = "returned"
    /\ items = << >>
    /\ block = [id |-> -1, timestamp |-> -1]
    /\ cpc = "done"
    /\ prev_balances = << >>
    /\ claimed_accounts = {}
    /\ period_rewards = EmptyRewards
    /\ unclaimed_balances = EmptyRewards
    /\ final_rewards = EmptyRewards
    /\ mpc = "merged"
    /\ operators = << >>
    /\ used_pubkeys = {}
    /\ registered_pubkeys = {}
    /\ selected = [operator |-> 0, public_key |-> 0, deposit_data_root |-> 0]
    /\ spc = "selected"
    /\ validator_params = [validators_nonce |-> 0, pool_balance |-> 0]
    /\ block_number = 0
    /\ validator_votes = << >>
    /\ vpc = "done"
    /\ chain = [rewards_nonce |-> 0, total_rewards |-> 0, total_fees |-> 0,
                rewards_updated_at_timestamp |-> 0]
    /\ network = "mainnet"
    /\ rewards_params = [rewards_nonce |-> 0, total_rewards |-> 0, total_fees |-> 0,
                         rewards_updated_at_timestamp |-> 0]
    /\ current_timestamp = 0
    /\ finalized_epoch = 0
    /\ beacon_validators = << >>
    /\ rframe = [next_update_time |-> 0, update_timestamp |-> 0, update_epoch |-> 0,
                 public_keys |-> 0, i |-> 0, fetched |-> {}, total_rewards |-> 0,
                 activated_validators |-> 0]
    /\ reward_votes = << >>
    /\ last_vote_total_rewards = -1
    /\ rpc = "idle"
    /\ tick = 0
    /\ mainpc = "loop"
    /\ failed_ticks = {}
    /\ tick_start_state = -1
    /\ interrupt_exit = FALSE
    /\ session = "open"
    /\ holder_positions = << >>
    /\ from_block = 0
    /\ to_block = 0
    /\ holder_points = NoBalances
    /\ tpc = "returned"
    /\ distribute_events = << >>
    /\ distribution_start_block = 0
    /\ distribution_end_block = 0
    /\ blocks_interval = 1
    /\ distributions = << >>
    /\ dpc = "returned"
    /\ scanner \in {"erc20_balances", "participated_accounts", "v3_liquidity"}
    /\ first_block \in ScanBlocks
    /\ start_block = first_block
    /\ end_block \in first_block..MaxScanBlock
    /\ blocks_spread = BLOCKS_SPREAD
    /\ scan_phase = IF scanner = "v3_liquidity" THEN "increase" ELSE "transfer"
    /\ held_events = NoEvents
    /\ ranges = << >>
    /\ scan_balances = << >>
    /\ scan_accounts = {}
    /\ applied = [key \in AppliedKeys |-> 0]
    /\ failures = 0
    /\ scpc = "scan"

\* an attempt whose getLogs call succeeds, and the processing of its events
ScanSucceeds ==
    /\ scpc = "scan"
    /\ start_block < end_block
    /\ LET to_block_ == to_block_of(start_block, blocks_spread, end_block)
           events == [bound |-> TRUE, kind |-> scan_phase, from |-> start_block,
                      to |-> to_block_]
       IN  /\ held_events' = events
           /\ ranges' = Append(ranges, [kind |-> scan_phase, from |-> start_block,
                                        to |-> to_block_])
           /\ start_block' = to_block_ + 1
           /\ applied' = count_applied(applied, events)
           /\ IF scanner = "participated_accounts"
              THEN /\ scan_accounts' = scan_accounts
                                           \cup transfer_accounts(events.from, events.to)
                   /\ scan_balances' = scan_balances
              ELSE /\ scan_balances' = process_events(scan_phase, events, scan_balances)
                   /\ scan_accounts' = scan_accounts
    /\ UNCHANGED <<scanner, first_block, end_block, blocks_spread, scan_phase,
                   failures, scpc>>
    /\ UNCHANGED <<alloc_vars, consensus_vars, page_vars, carry_vars, validators_vars,
                   rewards_vars, main_vars, points_vars, dist_vars>>

\* an attempt whose getLogs call raises: the spread is halved and the attempt is
\* repeated. In get_uniswap_v3_token_owner_liquidity the processing of the
\* events stands after the "with attempt" block and runs all the same, on what
\* the local holds; a local never assigned raises UnboundLocalError.
ScanFails ==
    /\ scpc = "scan"
    /\ start_block < end_block
    /\ failures < MaxFailures
    /\ failures' = failures + 1
    /\ blocks_spread' = blocks_spread \div 2
    /\ IF scanner # "v3_liquidity"
       THEN UNCHANGED <<scan_balances, applied, scpc>>
       ELSE IF ~held_events.bound
       THEN /\ scpc' = "crashed"
            /\ UNCHANGED <<scan_balances, applied>>
       ELSE /\ scan_balances' = process_events(scan_phase, held_events, scan_balances)
            /\ applied' = count_applied(applied, held_events)
            /\ scpc' = scpc
    /\ UNCHANGED <<scanner, first_block, start_block, end_block, scan_phase,
                   held_events, ranges, scan_accounts>>
    /\ UNCHANGED <<alloc_vars, consensus_vars, page_vars, carry_vars, validators_vars,
                   rewards_vars, main_vars, points_vars, dist_vars>>

\* "while start_block < end_block" is over: the function returns, or goes on to
\* the decrease events from _start_block with the spread reset
ScanLoopEnds ==
    /\ scpc = "scan"
    /\ ~(start_block < end_block)
    /\ IF scanner = "v3_liquidity" /\ scan_phase = "increase"
       THEN /\ scan_phase' = "decrease"
            /\ blocks_spread' = BLOCKS_SPREAD
            /\ start_block' = first_block
            /\ scpc' = scpc
       ELSE /\ scpc' = "returned"
            /\ UNCHANGED <<scan_phase, blocks_spread, start_block>>
    /\ UNCHANGED <<scanner, first_block, end_block, held_events, ranges,
                   scan_balances, scan_accounts, applied, failures>>
    /\ UNCHANGED <<alloc_vars, consensus_vars, page_vars, carry_vars, validators_vars,
                   rewards_vars, main_vars, points_vars, dist_vars>>

ScanNext ==
    \/ ScanSucceeds
    \/ ScanFails
    \/ ScanLoopEnds

\* ------------------------------------------------------------------------
\* RewardsController.process and the main loop
\* ------------------------------------------------------------------------

\* Time is counted in units of half an epoch. Amounts of Wei are counted in
\* 1/32 ether and validator balances, which the beacon chain reports in gwei, in
\* whole ether, so that the mGNO rate of 32 divides every validator reward exactly.

\* NETWORK_CONFIG["SYNC_PERIOD"]
SYNC_PERIOD == 3
\* NETWORK_CONFIG["SLOTS_PER_EPOCH"]
SLOTS_PER_EPOCH == 2
\* NETWORK_CONFIG["SECONDS_PER_SLOT"]
SECONDS_PER_SLOT == 1
\* self.seconds_per_epoch
seconds_per_epoch == SLOTS_PER_EPOCH * SECONDS_PER_SLOT
\* int(genesis["genesis_time"])
genesis_timestamp == 1
\* NETWORK_CONFIG["VALIDATORS_FETCH_CHUNK_SIZE"]
VALIDATORS_FETCH_CHUNK_SIZE == 2
\* ORACLE_PROCESS_INTERVAL
ORACLE_PROCESS_INTERVAL == 1
\* one ether and 10^9 gwei, in the unit of Wei
EtherInWei == 32
\* WAD and MGNO_RATE, both divided by 10^18
WAD == 1
MGNO_RATE == 32

MAINNET == "mainnet"
GNOSIS_CHAIN == "gnosis"

REWARD_VOTE_FILENAME == "reward-vote.json"

PENDING_STATUSES == {"pending_initialized", "pending_queued"}

\* Web3.toWei(32, "ether")
deposit_amount == 32 * EtherInWei

\* the validators the beacon chain can report: status and balance
ValidatorKinds ==
    {[status |-> "pending_queued", balance |-> 33],
     [status |-> "active_ongoing", balance |-> 31],
     [status |-> "active_ongoing", balance |-> 32],
     [status |-> "active_ongoing", balance |-> 33]}

BeaconValidators == UNION {[1..n -> ValidatorKinds] : n \in 0..MaxValidators}

\* the pools the main loop is followed with: no validator, one validator that
\* lost an ether, two validators that earned one and a pending one between them
MainValidators ==
    {<< >>,
     <<[status |-> "active_ongoing", balance |-> 31]>>,
     <<[status |-> "active_ongoing", balance |-> 33],
       [status |-> "pending_queued", balance |-> 33],
       [status |-> "active_ongoing", balance |-> 33]>>}

\* the on-chain rewards state the oracles vote on: nothing or 5 ether rewarded so
\* far, fees of 0, 1 or 5 ether, the last update at time 10
ChainStates ==
    [rewards_nonce : {FirstNonce}, total_rewards : {0, 5 * EtherInWei},
     total_fees : {0, EtherInWei, 5 * EtherInWei},
     rewards_updated_at_timestamp : {10}]

NoFrame == [next_update_time |-> 0, update_timestamp |-> 0, update_epoch |-> 0,
            public_keys |-> 0, i |-> 0, fetched |-> {}, total_rewards |-> 0,
            activated_validators |-> 0]

\* the first scheduled update is kept whatever the current time
first_update_time(next_update_time, current_time) == next_update_time

\* while next_update_time + self.sync_period <= current_time
RECURSIVE advance_update_time(_, _)
advance_update_time(next_update_time, current_time) ==
    IF next_update_time + SYNC_PERIOD <= current_time
    THEN advance_update_time(next_update_time + SYNC_PERIOD, current_time)
    ELSE next_update_time

\* (update_timestamp - self.genesis_timestamp) // self.seconds_per_epoch
update_epoch_of(update_timestamp) ==
    (update_timestamp - genesis_timestamp) \div seconds_per_epoch

\* Web3.toWei(validator["balance"], "gwei") - self.deposit_amount, with the
\* mGNO <-> GNO exchange rate on the Gnosis chain
validator_reward_of(validator, net) ==
    LET validator_reward == validator.balance * EtherInWei - deposit_amount
    IN  IF net = GNOSIS_CHAIN THEN (validator_reward * WAD) \div MGNO_RATE
        ELSE validator_reward

\* for validator in validators: the rewards and the count after the chunk
RECURSIVE chunk_loop(_, _, _, _)
chunk_loop(validators, k, totals, net) ==
    IF k > Len(validators) THEN totals
    ELSE IF validators[k].status \in PENDING_STATUSES
    THEN chunk_loop(validators, k + 1, totals, net)
    ELSE chunk_loop(validators, k + 1,
             [total_rewards |-> totals.total_rewards
                                    + validator_reward_of(validators[k], net),
              activated_validators |-> totals.activated_validators + 1], net)

\* the positions of public_keys[i : i + chunk_size]
chunk_of(i) ==
    (i + 1)..(IF i + VALIDATORS_FETCH_CHUNK_SIZE < Len(beacon_validators)
              THEN i + VALIDATORS_FETCH_CHUNK_SIZE ELSE Len(beacon_validators))

\* public_keys[i : i + chunk_size] at state_id
get_validators(i) ==
    SubSeq(beacon_validators, i + 1,
           IF i + VALIDATORS_FETCH_CHUNK_SIZE < Len(beacon_validators)
           THEN i + VALIDATORS_FETCH_CHUNK_SIZE ELSE Len(beacon_validators))

\* the epoch is taken as finalized whatever the checkpoints say
never_wait(update_epoch, finalized) == FALSE

\* while update_epoch > int(checkpoints["finalized"]["epoch"])
not_finalized(update_epoch, finalized) == update_epoch > finalized

\* the loop over the chunks ends after its first pass
stop_after_chunk(i, keys) == FALSE

\* range(0, len(public_keys), chunk_size) has a pass for i
in_range(i, keys) == i < keys

\* only a negative total counts as no rewards
negative_rewards(total_rewards) == total_rewards < 0

\* if not total_rewards
no_rewards(total_rewards) == total_rewards = 0

\* the computed total is voted as it is
unclamped_total_rewards(total_rewards, previous) == total_rewards

\* rewards were reduced -> don't mint new ones
clamped_total_rewards(total_rewards, previous) ==
    IF total_rewards < previous THEN previous ELSE total_rewards

\* str(total_rewards), as decimal digits
RECURSIVE str(_)
str(n) == IF n < 10 THEN <<n>> ELSE str(n \div 10) \o <<n % 10>>

\* self.last_vote_total_rewards is assigned before submit_vote is called
last_vote_assigned_first(last_vote, total_rewards) == total_rewards

\* self.last_vote_total_rewards when submit_vote raises: line 173 is not reached
last_vote_on_failed_submit(last_vote, total_rewards) == last_vote

\* @save: an exception of process is logged and process returns
save(outcome) == IF outcome = "raised" THEN "returned" ELSE outcome

\* the state right after the main loop has read the voting parameters of a tick
RewardsInit ==
    \* nothing but the rewards controller is in progress
    /\ contract_address = 1
    /\ reward = 0
    /\ fetched = [c \in SupportedContracts |-> NoBalances]
    /\ holdings = 0
    /\ stack = << >>
    /\ returned = EmptyRewards
    /\ apc = "done"
    /\ run = 1
    /\ first_returned = EmptyRewards
    /\ items = << >>
    /\ block = None
    /\ cpc = "done"
    /\ entities = 0
    /\ last_id = 0
    /\ result = << >>
    /\ calls = << >>
    /\ paginator = "base"
    /\ ppc = "returned"
    /\ prev_balances = << >>
    /\ claimed_accounts = {}
    /\ period_rewards = EmptyRewards
    /\ unclaimed_balances = EmptyRewards
    /\ final_rewards = EmptyRewards
    /\ mpc = "merged"
    /\ operators = << >>
    /\ used_pubkeys = {}
    /\ registered_pubkeys = {}
    /\ selected = NoDeposit
    /\ spc = "selected"
    /\ validator_params = [validators_nonce |-> 0, pool_balance |-> 0]
    /\ block_number = 0
    /\ validator_votes = << >>
    /\ vpc = "done"
    /\ chain \in ChainStates
    /\ network \in {MAINNET, GNOSIS_CHAIN}
    /\ rewards_params = chain
    /\ current_timestamp \in 10..(10 + MaxElapsed)
    /\ finalized_epoch = update_epoch_of(10 + SYNC_PERIOD)
    /\ beacon_validators \in BeaconValidators
    /\ rframe = NoFrame
    /\ reward_votes = << >>
    /\ last_vote_total_rewards = -1
    /\ rpc = "start"
    /\ tick = 1
    /\ mainpc = "gather"
    /\ failed_ticks = {}
    /\ tick_start_state = -1
    \* no interrupt received
    /\ interrupt_exit = FALSE
    /\ session = "open"
    \* no token points in progress
    /\ holder_positions = << >>
    /\ from_block = 0
    /\ to_block = 0
    /\ holder_points = NoBalances
    /\ tpc = "returned"
    \* no interval distributions in progress
    /\ distribute_events = << >>
    /\ distribution_start_block = 0
    /\ distribution_end_block = 0
    /\ blocks_interval = 1
    /\ distributions = << >>
    /\ dpc = "returned"
    \* no block-range scan in progress
    /\ scanner = "erc20_balances"
    /\ first_block = 0
    /\ start_block = 0
    /\ end_block = 0
    /\ blocks_spread = 0
    /\ scan_phase = "transfer"
    /\ held_events = [bound |-> FALSE, kind |-> "transfer", from |-> 0, to |-> 0]
    /\ ranges = << >>
    /\ scan_balances = << >>
    /\ scan_accounts = {}
    /\ applied = << >>
    /\ failures = 0
    /\ scpc = "returned"

\* check whether it's voting time
RewardsStart ==
    /\ rpc = "start"
    /\ LET next_update_time ==
               advance_update_time(
                   rewards_params.rewards_updated_at_timestamp + SYNC_PERIOD,
                   current_timestamp)
       IN  IF next_update_time > current_timestamp
           THEN /\ rpc' = "returned"
                /\ rframe' = rframe
           ELSE /\ rpc' = "keys"
                /\ rframe' = [rframe EXCEPT !.next_update_time = next_update_time]
    /\ UNCHANGED <<chain, network, rewards_params, current_timestamp,
                   finalized_epoch, beacon_validators, reward_votes,
                   last_vote_total_rewards, tick, mainpc, failed_ticks,
                   tick_start_state>>
    /\ UNCHANGED <<alloc_vars, consensus_vars, page_vars, carry_vars, validators_vars,
                   main_vars, points_vars, dist_vars, scan_vars>>

\* public_keys = await get_registered_validators_public_keys(current_block_number)
\* and the epoch of the update
RewardsKeys ==
    /\ rpc = "keys"
    /\ rframe' = [rframe EXCEPT
                     !.public_keys = Len(beacon_validators),
                     !.update_timestamp = rframe.next_update_time,
                     !.update_epoch = update_epoch_of(rframe.next_update_time)]
    /\ rpc' = "finality"
    /\ UNCHANGED <<chain, network, rewards_params, current_timestamp,
                   finalized_epoch, beacon_validators, reward_votes,
                   last_vote_total_rewards, tick, mainpc, failed_ticks,
                   tick_start_state>>
    /\ UNCHANGED <<alloc_vars, consensus_vars, page_vars, carry_vars, validators_vars,
                   main_vars, points_vars, dist_vars, scan_vars>>

\* checkpoints = await get_finality_checkpoints(...): sleep and poll again while
\* the epoch is not finalized
RewardsFinality ==
    /\ rpc = "finality"
    /\ IF not_finalized(rframe.update_epoch, finalized_epoch)
       THEN UNCHANGED <<rpc, rframe>>
       ELSE /\ rframe' = [rframe EXCEPT
                             !.total_rewards = rewards_params.total_fees,
                             !.activated_validators = 0,
                             !.i = 0]
            /\ rpc' = IF in_range(0, rframe.public_keys) THEN "fetch" ELSE "vote"
    /\ UNCHANGED <<chain, network, rewards_params, current_timestamp,
                   finalized_epoch, beacon_validators, reward_votes,
                   last_vote_total_rewards, tick, mainpc, failed_ticks,
                   tick_start_state>>
    /\ UNCHANGED <<alloc_vars, consensus_vars, page_vars, carry_vars, validators_vars,
                   main_vars, points_vars, dist_vars, scan_vars>>

\* one pass of "for i in range(0, len(public_keys), chunk_size)"
RewardsFetchChunk ==
    /\ rpc = "fetch"
    /\ LET validators == get_validators(rframe.i)
           totals == chunk_loop(validators, 1,
                         [total_rewards |-> rframe.total_rewards,
                          activated_validators |-> rframe.activated_validators],
                         network)
       IN  /\ rframe' = [rframe EXCEPT
                            !.total_rewards = totals.total_rewards,
                            !.activated_validators = totals.activated_validators,
                            !.fetched = rframe.fetched \cup chunk_of(rframe.i),
                            !.i = rframe.i + VALIDATORS_FETCH_CHUNK_SIZE]
           /\ rpc' = IF in_range(rframe.i + VALIDATORS_FETCH_CHUNK_SIZE,
                                 rframe.public_keys)
                     THEN "fetch" ELSE "vote"
    /\ UNCHANGED <<chain, network, rewards_params, current_timestamp,
                   finalized_epoch, beacon_validators, reward_votes,
                   last_vote_total_rewards, tick, mainpc, failed_ticks,
                   tick_start_state>>
    /\ UNCHANGED <<alloc_vars, consensus_vars, page_vars, carry_vars, validators_vars,
                   main_vars, points_vars, dist_vars, scan_vars>>

\* the rest of process: no vote without rewards, the clamp, submit_vote and
\* self.last_vote_total_rewards
RewardsVote ==
    /\ rpc = "vote"
    /\ IF no_rewards(rframe.total_rewards)
       THEN UNCHANGED <<rframe, reward_votes, last_vote_total_rewards>>
       ELSE LET total_rewards == clamped_total_rewards(rframe.total_rewards,
                                                       rewards_params.total_rewards)
                current_nonce == rewards_params.rewards_nonce
            IN  /\ rframe' = [rframe EXCEPT !.total_rewards = total_rewards]
                /\ reward_votes' = Append(reward_votes,
                       [name |-> REWARD_VOTE_FILENAME,
                        encoded_data |-> <<current_nonce, rframe.activated_validators,
                                           total_rewards>>,
                        vote |-> [nonce |-> current_nonce,
                                  activated_validators |-> rframe.activated_validators,
                                  total_rewards |-> str(total_rewards)]])
                /\ last_vote_total_rewards' = total_rewards
    /\ rpc' = "returned"
    /\ UNCHANGED <<chain, network, rewards_params, current_timestamp,
                   finalized_epoch, beacon_validators, tick, mainpc, failed_ticks,
                   tick_start_state>>
    /\ UNCHANGED <<alloc_vars, consensus_vars, page_vars, carry_vars, validators_vars,
                   main_vars, points_vars, dist_vars, scan_vars>>

\* another update of the rewards is executed on chain
NonceAdvances ==
    /\ chain.rewards_nonce < FirstNonce + MaxNonceAdvances
    /\ chain' = [chain EXCEPT
                    !.rewards_nonce = chain.rewards_nonce + 1,
                    !.rewards_updated_at_timestamp =
                        chain.rewards_updated_at_timestamp + SYNC_PERIOD]
    /\ UNCHANGED <<network, rewards_params, current_timestamp, finalized_epoch,
                   beacon_validators, rframe, reward_votes, last_vote_total_rewards,
                   rpc, tick, mainpc, failed_ticks, tick_start_state>>
    /\ UNCHANGED <<alloc_vars, consensus_vars, page_vars, carry_vars, validators_vars,
                   main_vars, points_vars, dist_vars, scan_vars>>

\* the beacon chain finalizes one more epoch
EpochFinalizes ==
    /\ finalized_epoch < MaxFinalizedEpoch
    /\ finalized_epoch' = finalized_epoch + 1
    /\ UNCHANGED <<chain, network, rewards_params, current_timestamp,
                   beacon_validators, rframe, reward_votes, last_vote_total_rewards,
                   rpc, tick, mainpc, failed_ticks, tick_start_state>>
    /\ UNCHANGED <<alloc_vars, consensus_vars, page_vars, carry_vars, validators_vars,
                   main_vars, points_vars, dist_vars, scan_vars>>

RewardsNext ==
    \/ RewardsStart
    \/ RewardsKeys
    \/ RewardsFinality
    \/ RewardsFetchChunk
    \/ RewardsVote
    \/ NonceAdvances
    \/ EpochFinalizes

\* main() in front of its while loop, the controllers constructed
MainInit ==
    \* nothing but the rewards controller is in progress
    /\ contract_address = 1
    /\ reward = 0
    /\ fetched = [c \in SupportedContracts |-> NoBalances]
    /\ holdings = 0
    /\ stack = << >>
    /\ returned = EmptyRewards
    /\ apc = "done"
    /\ run = 1
    /\ first_returned = EmptyRewards
    /\ items = << >>
    /\ block = None
    /\ cpc = "done"
    /\ entities = 0
    /\ last_id = 0
    /\ result = << >>
    /\ calls = << >>
    /\ paginator = "base"
    /\ ppc = "returned"
    /\ prev_balances = << >>
    /\ claimed_accounts = {}
    /\ period_rewards = EmptyRewards
    /\ unclaimed_balances = EmptyRewards
    /\ final_rewards = EmptyRewards
    /\ mpc = "merged"
    /\ operators = << >>
    /\ used_pubkeys = {}
    /\ registered_pubkeys = {}
    /\ selected = NoDeposit
    /\ spc = "selected"
    /\ validator_params = [validators_nonce |-> 0, pool_balance |-> 0]
    /\ block_number = 0
    /\ validator_votes = << >>
    /\ vpc = "done"
    /\ chain \in ChainStates
    /\ network = MAINNET
    /\ rewards_params = chain
    /\ current_timestamp \in {12, 15}
    /\ finalized_epoch = update_epoch_of(10 + SYNC_PERIOD)
    /\ beacon_validators \in MainValidators
    /\ rframe = NoFrame
    /\ reward_votes = << >>
    /\ last_vote_total_rewards = -1
    /\ rpc = "idle"
    /\ tick = 0
    /\ mainpc = "loop"
    /\ failed_ticks = {}
    /\ tick_start_state = -1
    \* no interrupt received
    /\ interrupt_exit = FALSE
    /\ session = "open"
    \* no token points in progress
    /\ holder_positions = << >>
    /\ from_block = 0
    /\ to_block = 0
    /\ holder_points = NoBalances
    /\ tpc = "returned"
    \* no interval distributions in progress
    /\ distribute_events = << >>
    /\ distribution_start_block = 0
    /\ distribution_end_block = 0
    /\ blocks_interval = 1
    /\ distributions = << >>
    /\ dpc = "returned"
    \* no block-range scan in progress
    /\ scanner = "erc20_balances"
    /\ first_block = 0
    /\ start_block = 0
    /\ end_block = 0
    /\ blocks_spread = 0
    /\ scan_phase = "transfer"
    /\ held_events = [bound |-> FALSE, kind |-> "transfer", from |-> 0, to |-> 0]
    /\ ranges = << >>
    /\ scan_balances = << >>
    /\ scan_accounts = {}
    /\ applied = << >>
    /\ failures = 0
    /\ scpc = "returned"

\* the flag is not looked at
loop_forever(exit) == TRUE

\* while not interrupt_handler.exit
loop_condition(exit) == ~exit

\* a pass of the while loop up to the gather: the finalized block and the voting
\* parameters are read and process is called
MainTick ==
    /\ mainpc = "loop"
    /\ loop_condition(interrupt_exit)
    /\ tick < MaxTicks
    /\ tick' = tick + 1
    /\ current_timestamp' = current_timestamp + ORACLE_PROCESS_INTERVAL
    /\ rewards_params' = chain
    /\ rframe' = NoFrame
    /\ rpc' = "start"
    /\ mainpc' = "gather"
    /\ tick_start_state' = last_vote_total_rewards
    /\ UNCHANGED <<chain, network, finalized_epoch, beacon_validators, reward_votes,
                   last_vote_total_rewards, failed_ticks>>
    /\ UNCHANGED <<alloc_vars, consensus_vars, page_vars, carry_vars, validators_vars,
                   main_vars, points_vars, dist_vars, scan_vars>>

\* an await of process raises, its retries exhausted: the public keys, the
\* checkpoints, a chunk of validators or submit_vote
RewardsRaise ==
    /\ rpc \in {"keys", "finality", "fetch", "vote"}
    /\ rpc = "vote" => ~no_rewards(rframe.total_rewards)
    /\ last_vote_total_rewards' =
           IF rpc = "vote"
           THEN last_vote_on_failed_submit(last_vote_total_rewards,
                    clamped_total_rewards(rframe.total_rewards,
                                          rewards_params.total_rewards))
           ELSE last_vote_total_rewards
    /\ rpc' = "raised"
    /\ failed_ticks' = failed_ticks \cup {tick}
    /\ UNCHANGED <<chain, network, rewards_params, current_timestamp,
                   finalized_epoch, beacon_validators, rframe, reward_votes, tick,
                   mainpc, tick_start_state>>
    /\ UNCHANGED <<alloc_vars, consensus_vars, page_vars, carry_vars, validators_vars,
                   main_vars, points_vars, dist_vars, scan_vars>>

\* the wrapper of process takes the exception
SaveProcess ==
    /\ rpc = "raised"
    /\ rpc' = save(rpc)
    /\ UNCHANGED <<chain, network, rewards_params, current_timestamp,
                   finalized_epoch, beacon_validators, rframe, reward_votes,
                   last_vote_total_rewards, tick, mainpc, failed_ticks,
                   tick_start_state>>
    /\ UNCHANGED <<alloc_vars, consensus_vars, page_vars, carry_vars, validators_vars,
                   main_vars, points_vars, dist_vars, scan_vars>>

\* the gather is over: asyncio.sleep(ORACLE_PROCESS_INTERVAL) and the next pass;
\* an exception of the gather would leave main
MainSleep ==
    /\ mainpc = "gather"
    /\ rpc \in {"returned", "propagated"}
    /\ mainpc' = IF rpc = "propagated" THEN "crashed" ELSE "loop"
    /\ rpc' = "idle"
    /\ UNCHANGED <<chain, network, rewards_params, current_timestamp,
                   finalized_epoch, beacon_validators, rframe, reward_votes,
                   last_vote_total_rewards, tick, failed_ticks, tick_start_state>>
    /\ UNCHANGED <<alloc_vars, consensus_vars, page_vars, carry_vars, validators_vars,
                   main_vars, points_vars, dist_vars, scan_vars>>

\* InterruptHandler.exit_gracefully: SIGINT or SIGTERM is delivered
ExitGracefully ==
    /\ mainpc # "closed"
    /\ interrupt_exit' = TRUE
    /\ UNCHANGED <<session, rewards_vars>>
    /\ UNCHANGED <<alloc_vars, consensus_vars, page_vars, carry_vars, validators_vars,
                   points_vars, dist_vars, scan_vars>>

\* the loop condition fails: await session.close() and main returns
MainExit ==
    /\ mainpc = "loop"
    /\ ~loop_condition(interrupt_exit)
    /\ session' = "closed"
    /\ mainpc' = "closed"
    /\ UNCHANGED <<chain, network, rewards_params, current_timestamp, finalized_epoch,
                   beacon_validators, rframe, reward_votes, last_vote_total_rewards,
                   rpc, tick, failed_ticks, tick_start_state, interrupt_exit>>
    /\ UNCHANGED <<alloc_vars, consensus_vars, page_vars, carry_vars, validators_vars,
                   points_vars, dist_vars, scan_vars>>

MainNext ==
    \/ MainTick
    \/ RewardsStart
    \/ RewardsKeys
    \/ RewardsFinality
    \/ RewardsFetchChunk
    \/ RewardsVote
    \/ RewardsRaise
    \/ SaveProcess
    \/ MainSleep
    \/ EpochFinalizes

InterruptNext ==
    \/ MainTick
    \/ RewardsStart
    \/ RewardsKeys
    \/ RewardsFinality
    \/ RewardsFetchChunk
    \/ RewardsVote
    \/ RewardsRaise
    \/ SaveProcess
    \/ MainSleep
    \/ EpochFinalizes
    \/ ExitGracefully
    \/ MainExit

\* ------------------------------------------------------------------------
\* Specifications
\* ------------------------------------------------------------------------

SpecAlloc == AllocInit /\ [][AllocNext]_vars

SpecRerun == AllocInit /\ [][AllocNext \/ Rerun]_vars

SpecConsensus == ConsensusInit /\ [][ConsensusNext]_vars

SpecPaginate == PageInit /\ [][PageNext]_vars

SpecPaginateStale == StalePageInit /\ [][StalePageNext]_vars

SpecCarry == CarryInit /\ [][CarryNext]_vars

SpecSelect == SelectInit /\ [][SelectNext]_vars

SpecValidators == ProcessInit /\ [][ProcessNext]_vars

SpecPoints == PointsInit /\ [][PointsNext]_vars

SpecDistributions == DistributionsInit /\ [][DistributionsNext]_vars

SpecScan == ScanInit /\ [][ScanNext]_vars

SpecRewards == RewardsInit /\ [][RewardsNext]_vars

SpecMain == MainInit /\ [][MainNext]_vars

\* the event loop keeps running whatever is ready to run
SpecMainLive == SpecMain /\ WF_vars(MainNext)

\* the main loop with interrupt signals, under the event loop
SpecInterrupt == MainInit /\ [][InterruptNext]_vars /\ WF_vars(InterruptNext)

\* ------------------------------------------------------------------------
\* Properties of the allocator
\* ------------------------------------------------------------------------

RECURSIVE SumOver(_, _)
SumOver(f, S) ==
    IF S = {} THEN 0
    ELSE LET x == CHOOSE y \in S : TRUE IN f[x] + SumOver(f, S \ {x})

\* the amount of the reward token credited to account a, 0 when it has no entry
Amount(rewards, a) ==
    IF a \in DOMAIN rewards /\ REWARD_TOKEN \in DOMAIN rewards[a]
    THEN rewards[a][REWARD_TOKEN] ELSE 0

SumRewards(rewards) ==
    SumOver([a \in DOMAIN rewards |-> SumOver(rewards[a], DOMAIN rewards[a])],
            DOMAIN rewards)

OnlyTo(account, amount) == (account :> (REWARD_TOKEN :> amount))

\* the data-model invariant of Balances
ValidBalances(b) ==
    /\ b.total_supply >= 0
    /\ \A a \in DOMAIN b.balances : b.balances[a] >= 0
    /\ SumOver(b.balances, DOMAIN b.balances) <= b.total_supply

AllFetchedValid ==
    \A c \in SupportedContracts : fetched[c].fetched => ValidBalances(fetched[c])

Holders(c) == DOMAIN fetched[c].balances

MaxOf(S) == CHOOSE x \in S : \A y \in S : y <= x

AllAmountsNonNegative(rewards) ==
    \A a \in DOMAIN rewards : \A t \in DOMAIN rewards[a] : rewards[a][t] >= 0

\* C1: whenever get_rewards(contract, R) with R > 0 has returned and every fetched
\* Balances satisfies the data-model invariant, the returned amounts sum to R.
C1_Conservation ==
    (apc = "done" /\ reward > 0 /\ AllFetchedValid) => SumRewards(returned) = reward

\* C2: when supported contracts A and B hold each other and get_rewards(A, R) has
\* returned, the returned amounts sum to R.
C2_CycleConserves ==
    (/\ apc = "done" /\ reward > 0 /\ AllFetchedValid
     /\ contract_address \in SupportedContracts
     /\ \E b \in SupportedContracts \ {contract_address} :
            /\ fetched[b].fetched
            /\ b \in Holders(contract_address)
            /\ contract_address \in Holders(b))
    => SumRewards(returned) = reward

\* The nested scenario: C = 2 has the single holder D = 4 (balance 1, supply 1),
\* D's holders are alpha = 1 and beta = 3 with balance 1 each, the reward is 1000.
NestedScenario ==
    /\ contract_address = 2
    /\ reward = 1000
    /\ fetched[2] = Balances(1, (4 :> 1))
    /\ fetched[4].fetched
    /\ fetched[4].balances = (1 :> 1) @@ (3 :> 1)
    /\ ValidBalances(fetched[4])

\* C3 as claimed: in the nested scenario get_rewards(C, 1000) returns exactly
\* fallback -> 1000.
C3_NestedToFallback ==
    (apc = "done" /\ NestedScenario) =>
        returned = OnlyTo(DISTRIBUTOR_FALLBACK_ADDRESS, 1000)

\* C3 as amended: in the nested scenario get_rewards(C, 1000) recurses into D and
\* returns alpha -> 1000 div S and beta -> 1000 - 1000 div S, S being D's total
\* supply (500 and 500 for S = 2); the fallback address gets no entry.
C3_NestedToHolders ==
    (apc = "done" /\ contract_address = 2 /\ reward = 1000
        /\ fetched[2] = Balances(1, (4 :> 1))) =>
        /\ fetched[4].fetched
        /\ NestedScenario =>
              LET S == fetched[4].total_supply
              IN  returned = OnlyTo(1, 1000 \div S) @@ OnlyTo(3, 1000 - (1000 \div S))

C3_Witness == apc = "done" /\ NestedScenario /\ fetched[4].total_supply = 2

\* a supported contract with valid Balances, total_supply > 0 and only terminal holders
TerminalHolders ==
    /\ contract_address \in SupportedContracts
    /\ reward > 0
    /\ fetched[contract_address].fetched
    /\ ValidBalances(fetched[contract_address])
    /\ fetched[contract_address].total_supply > 0
    /\ Holders(contract_address) # {}
    /\ Holders(contract_address) \cap SupportedContracts = {}

FloorShare(a) ==
    (reward * fetched[contract_address].balances[a])
        \div fetched[contract_address].total_supply

\* C4: for a supported contract with total_supply > 0 and only terminal holders,
\* every holder but the last in sorted order gets floor(reward * balance /
\* total_supply), the last gets reward minus the others' shares, nobody else gets
\* anything; three holders of balance 1 share 1000 as 333, 333, 334.
C4_ProportionalSplit ==
    (apc = "done" /\ TerminalHolders) =>
        LET H == Holders(contract_address)
            last == MaxOf(H)
            others == H \ {last}
        IN  /\ \A a \in others : Amount(returned, a) = FloorShare(a)
            /\ Amount(returned, last) =
                   reward - SumOver([a \in others |-> FloorShare(a)], others)
            /\ \A a \in Addresses \ H : Amount(returned, a) = 0
            /\ (reward = 1000 /\ fetched[contract_address] =
                    Balances(3, (1 :> 1) @@ (3 :> 1) @@ (5 :> 1)))
               => returned = OnlyTo(1, 333) @@ OnlyTo(3, 333) @@ OnlyTo(5, 334)

C4_Witness ==
    /\ apc = "done"
    /\ TerminalHolders
    /\ reward = 1000
    /\ fetched[contract_address] = Balances(3, (1 :> 1) @@ (3 :> 1) @@ (5 :> 1))
    /\ returned = OnlyTo(1, 333) @@ OnlyTo(3, 333) @@ OnlyTo(5, 334)

\* C5: when the Balances fetched for a contract has total_supply <= 0, the frame
\* credits its whole slice to the fallback address and nothing else, and what it
\* returns adds exactly that slice to the fallback address for its caller.
C5_EmptyPool ==
    [][/\ (apc = "running" /\ Top.at = "fetch"
           /\ fetched'[Top.contract_address].total_supply <= 0)
          => /\ Len(stack') = Len(stack)
             /\ stack'[Len(stack)].rewards =
                    OnlyTo(DISTRIBUTOR_FALLBACK_ADDRESS, Top.total_reward)
             /\ stack'[Len(stack)].at = "return"
       /\ (apc = "running" /\ Len(stack') < Len(stack)
           /\ fetched[Top.contract_address].total_supply <= 0)
          => IF Len(stack) = 1
             THEN returned' = OnlyTo(DISTRIBUTOR_FALLBACK_ADDRESS, Top.total_reward)
             ELSE \A a \in Addresses :
                    Amount(stack'[Len(stack')].rewards, a) =
                        Amount(stack[Len(stack) - 1].rewards, a)
                        + (IF a = DISTRIBUTOR_FALLBACK_ADDRESS
                           THEN Top.total_reward ELSE 0)
      ]_vars

C5_Witness ==
    /\ apc = "running"
    /\ Len(stack) = 2
    /\ fetched[Top.contract_address].fetched
    /\ fetched[Top.contract_address].total_supply = 0
    /\ Top.rewards = OnlyTo(DISTRIBUTOR_FALLBACK_ADDRESS, Top.total_reward)

\* C6: no amount is negative in the Rewards get_rewards returns, nor in the Rewards
\* any frame holds after add_value and merge_rewards, whatever the fetched Balances.
C6_NonNegative ==
    /\ apc = "done" => AllAmountsNonNegative(returned)
    /\ \A k \in DOMAIN stack : AllAmountsNonNegative(stack[k].rewards)

\* balances whose sum exceeds total_supply were fetched and distributed
C6_Witness ==
    /\ apc = "done"
    /\ contract_address \in SupportedContracts
    /\ fetched[contract_address].fetched
    /\ fetched[contract_address].total_supply > 0
    /\ ~ValidBalances(fetched[contract_address])
    /\ SumRewards(returned) > reward

\* C7: a second get_rewards with the same arguments and the same fetched Balances,
\* the holders delivered in any order, returns the Rewards the first one returned.
C7_Determinism ==
    (run = 2 /\ apc = "done") => returned = first_returned

C7_Witness ==
    /\ run = 2
    /\ apc = "done"
    /\ contract_address \in SupportedContracts
    /\ fetched[contract_address].fetched
    /\ Cardinality(Holders(contract_address)) >= 2
    /\ Cardinality(DOMAIN returned) >= 2
    /\ returned = first_returned

NothingFetched == \A c \in SupportedContracts : ~fetched[c].fetched

\* C19: get_rewards on a contract outside the supported set with reward > 0
\* returns exactly fallback address -> reward token -> reward and fetches no
\* Balances; with reward <= 0 it returns the empty mapping for any contract, and
\* fetches nothing either.
C19_UnknownContract ==
    apc = "done" =>
        /\ (reward > 0 /\ ~is_supported_contract(contract_address)) =>
              /\ returned = OnlyTo(DISTRIBUTOR_FALLBACK_ADDRESS, reward)
              /\ NothingFetched
        /\ reward <= 0 => (returned = EmptyRewards /\ NothingFetched)

C19_Witness ==
    /\ apc = "done"
    /\ reward = 1000
    /\ contract_address = 3
    /\ returned = OnlyTo(DISTRIBUTOR_FALLBACK_ADDRESS, 1000)

\* ------------------------------------------------------------------------
\* Properties of the consensus pick
\* ------------------------------------------------------------------------

CountOf(n) == Cardinality({k \in DOMAIN items : func(items[k]) = n})

\* three endpoints reporting 100, 100 and 101 in some order
MajorityCase == Len(items) = 3 /\ CountOf(100) = 2 /\ CountOf(101) = 1

\* three endpoints reporting 100, 101 and 102 in some order
DistinctCase ==
    Len(items) = 3 /\ CountOf(100) = 1 /\ CountOf(101) = 1 /\ CountOf(102) = 1

\* C8: for 3 endpoints reporting 100, 100 and 101, in any order,
\* get_finalized_block returns block number 100.
C8_MajorityPick ==
    (cpc # "start" /\ MajorityCase) => (cpc = "done" /\ block.id = 100)

C8_Witness ==
    /\ cpc = "done"
    /\ MajorityCase
    /\ func(items[1]) = 101
    /\ block.id = 100

\* C9 as claimed: for 3 endpoints reporting 100, 101 and 102 the consensus fetch
\* fails and yields no block.
C9_DistinctFails ==
    (cpc # "start" /\ DistinctCase) => (cpc = "failed" /\ block = None)

\* C9 as amended: for 3 endpoints reporting 100, 101 and 102, in any order, the
\* fetch does not fail: it returns block number 101, the largest number that 2 of
\* the 3 endpoints have reached.
C9_DistinctPicksMiddle ==
    (cpc # "start" /\ DistinctCase) => (cpc = "done" /\ block.id = 101)

C9_Witness ==
    /\ cpc = "done"
    /\ DistinctCase
    /\ block.id = 101

\* endpoints that report exactly the block number n
Reporting(n) == {k \in DOMAIN items : func(items[k]) = n}

\* endpoints that report the block number n or a larger one
Reaching(n) == {k \in DOMAIN items : func(items[k]) >= n}

Ceil2(n) == (n + 1) \div 2

\* C20 as claimed: the block number picked is reported by at least
\* ceil(N/2) + 1 of the N endpoints.
C20_ReportedByCeilPlusOne ==
    cpc = "done" => Cardinality(Reporting(block.id)) >= Ceil2(Len(items)) + 1

\* C20 as amended: the block picked is one an endpoint reported, its number has
\* been reached (that number or a larger one reported) by at least
\* floor(N/2) + 1 of the N endpoints, and it is the largest reported number with
\* that property; when no positive reported number has it, the fetch fails.
C20_ReachedByMajority ==
    LET N == Len(items)
        eligible == {n \in {func(items[k]) : k \in DOMAIN items} :
                        n > 0 /\ Cardinality(Reaching(n)) >= N \div 2 + 1}
    IN  /\ cpc = "done" =>
              /\ \E k \in DOMAIN items : items[k] = block
              /\ block.id \in eligible
              /\ \A n \in eligible : n <= block.id
        /\ cpc = "failed" => eligible = {}

\* 100, 101, 101 in this order: the pick is the later, larger number
C20_Witness ==
    /\ cpc = "done"
    /\ Len(items) = 3
    /\ <<func(items[1]), func(items[2]), func(items[3])>> = <<100, 101, 101>>
    /\ block.id = 101

\* the endpoint results in the order given by the permutation p
Reordered(p) == [k \in DOMAIN items |-> items[p[k]]]

\* C29: every permutation of the list of endpoint results makes
\* _find_max_consensus choose a result with the same projected key, or None for
\* all of them.
C29_OrderIndependent ==
    cpc # "start" =>
        \A p \in Permutations(DOMAIN items) :
            LET again == _find_max_consensus(Reordered(p))
            IN  /\ (again = None) <=> (cpc = "failed")
                /\ cpc = "done" => func(again) = block.id

\* 102, 100, 101: block 101 whatever the order, and the reversed list at hand
C29_Witness ==
    /\ cpc = "done"
    /\ Len(items) = 3
    /\ <<func(items[1]), func(items[2]), func(items[3])>> = <<102, 100, 101>>
    /\ block.id = 101
    /\ func(_find_max_consensus(<<items[3], items[2], items[1]>>)) = 101

\* ------------------------------------------------------------------------
\* Properties of the paginated query
\* ------------------------------------------------------------------------

\* C10: in both paginators the first query carries the empty cursor, every later query the id of the
\* last entity of the page before it; every page but the last is a full window and
\* the last one is short; the list returned is all pages in order; 2250 entities
\* take exactly 3 queries (1000, 1000, 250).
C10_Pagination ==
    /\ \A k \in DOMAIN calls :
          /\ calls[k].last_id = (IF k = 1 THEN 0 ELSE result[PAGINATION_WINDOWS * (k - 1)].id)
          /\ k < Len(calls) => calls[k].count = PAGINATION_WINDOWS
    /\ ppc = "query" => Len(result) = PAGINATION_WINDOWS * Len(calls)
    /\ ppc = "returned" /\ calls # << >> =>
          /\ calls[Len(calls)].count < PAGINATION_WINDOWS
          /\ result = [k \in 1..entities |-> [id |-> EntityId(k)]]
          /\ (entities = 2250 =>
                 /\ Len(calls) = 3
                 /\ <<calls[1].count, calls[2].count, calls[3].count>> = <<1000, 1000, 250>>
                 /\ Len(result) = 2250)

C10_Witness ==
    /\ ppc = "returned"
    /\ entities = 2250
    /\ Len(calls) = 3
    /\ Len(result) = 2250

\* the ids of the k-th page of result: every page but the last is a full window
PageIds(k) ==
    LET from == PAGINATION_WINDOWS * (k - 1) + 1
        to == IF k = Len(calls) THEN Len(result) ELSE PAGINATION_WINDOWS * k
    IN  {result[i].id : i \in from..to}

\* a later page holds an entity id that an earlier page held
DuplicateBetweenPages ==
    \E j, k \in DOMAIN calls : j < k /\ PageIds(j) \cap PageIds(k) # {}

\* C11: when a later page holds an entity id that already appeared on an earlier
\* page, the paginated query does not return: no list holding the duplicated
\* entity is returned.
C11_DuplicateFails ==
    DuplicateBetweenPages => ppc # "returned"

\* ------------------------------------------------------------------------
\* Properties of the carry-over
\* ------------------------------------------------------------------------

\* the amount of token t the Rewards credit to account a, 0 when there is no entry
TokenAmount(rewards, a, t) ==
    IF a \in DOMAIN rewards /\ t \in DOMAIN rewards[a] THEN rewards[a][t] ELSE 0

\* the value of a decimal string of one or two digits
DecimalValue(d) == IF Len(d) = 1 THEN d[1] ELSE 10 * d[1] + d[2]

\* the amount of token t the previous file holds for account a, in any rendering
PriorAmount(a, t) ==
    LET at == {<<k, i>> \in (DOMAIN prev_balances) \X (1..2) :
                  /\ prev_balances[k].account \in {a, LowercaseOf(a)}
                  /\ i \in DOMAIN prev_balances[k].tokens
                  /\ prev_balances[k].tokens[i] = t}
    IN  IF at = {} THEN 0
        ELSE LET e == CHOOSE x \in at : TRUE
             IN  DecimalValue(prev_balances[e[1]].amounts[e[2]])

\* the prior file is alpha -> T = 10, alpha has claimed, the new allocation is
\* alpha -> T = 3
CarryScenario ==
    /\ prev_balances = <<[account |-> 1, tokens |-> <<REWARD_TOKEN>>,
                          amounts |-> <<(<<1, 0>>)>>]>>
    /\ 1 \in claimed_accounts
    /\ period_rewards = (1 :> (REWARD_TOKEN :> 3))

\* C17: an account of the claimed set is left out of the unclaimed balances
\* entirely and its merged amount per token is its new allocation alone (prior
\* 10, claimed, new 3 gives 3); an account not in the claimed set carries over
\* every token amount of the prior file and its merged amount is prior plus new
\* per token.
C17_CarryOverMerge ==
    /\ mpc # "start" =>
          /\ DOMAIN unclaimed_balances \subseteq CarryAccounts \ claimed_accounts
          /\ \A a \in CarryAccounts \ claimed_accounts : \A t \in Tokens :
                 TokenAmount(unclaimed_balances, a, t) = PriorAmount(a, t)
    /\ (mpc = "merged" /\ prev_balances # << >>) =>
          /\ \A a \in CarryAccounts : \A t \in Tokens :
                 TokenAmount(final_rewards, a, t) =
                     TokenAmount(period_rewards, a, t)
                     + (IF a \in claimed_accounts THEN 0 ELSE PriorAmount(a, t))
          /\ CarryScenario => final_rewards = (1 :> (REWARD_TOKEN :> 3))

\* both cases at once: alpha, written in lowercase, has claimed a prior 10 and
\* gets 3; beta has not claimed and carries its prior amounts
C17_Witness ==
    /\ mpc = "merged"
    /\ Len(prev_balances) = 2
    /\ prev_balances[1] = [account |-> LowercaseOf(1), tokens |-> <<REWARD_TOKEN>>,
                           amounts |-> <<(<<1, 0>>)>>]
    /\ claimed_accounts = {1}
    /\ TokenAmount(final_rewards, 1, REWARD_TOKEN) = 3
    /\ TokenAmount(final_rewards, 3, "SWISE") = 11

\* ------------------------------------------------------------------------
\* Properties of the validator selection
\* ------------------------------------------------------------------------

\* the address an operator id renders
OperatorAddress(id) == CHOOSE a \in OperatorIds \cup {ScenarioOperator} :
                           id \in {a, LowercaseOf(a)}

\* the length of the file of the k-th operator returned
FileLen(k) ==
    IF OperatorAddress(operators[k].id) = ScenarioOperator THEN 7 ELSE MaxFileLen

\* the indexes at or after the depositDataIndex of the k-th operator returned
\* whose public key is neither in used_pubkeys nor registered
Registrable(k) ==
    IF operators[k].depositDataMerkleProofs = "" THEN {}
    ELSE {i \in operators[k].depositDataIndex..(FileLen(k) - 1) :
             LET key == PubKey(OperatorAddress(operators[k].id), i)
             IN  key \notin used_pubkeys /\ key \notin registered_pubkeys}

MinOf(S) == CHOOSE x \in S : \A y \in S : x <= y

\* C15: select_validator returns, for the first operator in the order returned
\* that has a file and a registrable entry at or after its depositDataIndex, the
\* deposit data at the smallest such index (index 6 when the operator stands at 5
\* and the key at 5 is registered); it returns None when no operator has one;
\* the operators' depositDataIndex is never written.
C15_SelectionAdvance ==
    /\ [](spc = "selected" =>
            LET with_entry == {k \in DOMAIN operators : Registrable(k) # {}}
            IN  IF with_entry = {} THEN selected = NoDeposit
                ELSE LET k == MinOf(with_entry)
                         i == MinOf(Registrable(k))
                         address == OperatorAddress(operators[k].id)
                     IN  /\ selected.operator = address
                         /\ selected.public_key = PubKey(address, i)
                         /\ selected.deposit_data_root = 1000 + PubKey(address, i)
                         /\ (/\ address = ScenarioOperator
                             /\ registered_pubkeys = {PubKey(address, 5)})
                            => selected.public_key = PubKey(address, 6))
    /\ [][operators' = operators]_vars

C15_Witness ==
    /\ spc = "selected"
    /\ Len(operators) = 1
    /\ operators[1].depositDataIndex = 5
    /\ registered_pubkeys = {PubKey(ScenarioOperator, 5)}
    /\ selected.public_key = PubKey(ScenarioOperator, 6)

\* ------------------------------------------------------------------------
\* Properties of ValidatorsController.process
\* ------------------------------------------------------------------------

\* some operator has a registrable entry
SomeRegistrable == \E k \in DOMAIN operators : Registrable(k) # {}

\* C14: when the voting parameters report pool_balance < 32 ETH, process selects
\* no validator and never calls submit_vote, whatever the nonce and the block.
C14_LowBalance ==
    validator_params.pool_balance < 32 =>
        /\ validator_votes = << >>
        /\ selected = NoDeposit
        /\ vpc \in {"start", "done"}

\* the process is over with 31 ETH in the pool and a registrable deposit at hand
C14_Witness ==
    /\ vpc = "done"
    /\ validator_params.pool_balance = 31
    /\ SomeRegistrable
    /\ validator_votes = << >>

\* C16: when pool_balance >= 32 ETH and a registrable deposit exists, process
\* calls submit_vote exactly once: with the nonce of the voting parameters, the
\* selected deposit data, the validators deposit root of the block process was
\* called for, under the name validator-vote.json.
C16_VoteOnSuccess ==
    /\ Len(validator_votes) <= 1
    /\ (vpc = "done" /\ validator_params.pool_balance >= 32 /\ SomeRegistrable) =>
          LET k == MinOf({x \in DOMAIN operators : Registrable(x) # {}})
              address == OperatorAddress(operators[k].id)
              key == PubKey(address, MinOf(Registrable(k)))
          IN  validator_votes =
                  <<[name |-> "validator-vote.json",
                     nonce |-> validator_params.validators_nonce,
                     deposit_data |-> <<[operator |-> address, public_key |-> key,
                                         deposit_data_root |-> 1000 + key]>>,
                     validators_deposit_root |-> ValidatorsDepositRoots[block_number]]>>

C16_Witness ==
    /\ vpc = "done"
    /\ validator_params = [validators_nonce |-> 1000, pool_balance |-> 33]
    /\ block_number = 14583706
    /\ Len(validator_votes) = 1
    /\ validator_votes[1].deposit_data[1].public_key = PubKey(7, 1)

\* ------------------------------------------------------------------------
\* Properties of RewardsController.process
\* ------------------------------------------------------------------------

\* the rewards of the validators from public key k on, pending ones left out,
\* in the token of the network
RECURSIVE ValidatorsRewards(_)
ValidatorsRewards(k) ==
    IF k > Len(beacon_validators) THEN 0
    ELSE (IF beacon_validators[k].status \in {"pending_initialized", "pending_queued"}
          THEN 0
          ELSE IF network = "gnosis"
          THEN ((beacon_validators[k].balance - 32) * EtherInWei) \div 32
          ELSE (beacon_validators[k].balance - 32) * EtherInWei)
         + ValidatorsRewards(k + 1)

\* fees plus the sum of balance minus 32 ETH over the non-pending validators
ComputedTotal == rewards_params.total_fees + ValidatorsRewards(1)

\* C12 (as stated): process publishes no vote while the on-chain nonce is past
\* the nonce of the voting parameters it was called with.
C12_NoStaleNonceVote ==
    [][Len(reward_votes') > Len(reward_votes)
           => chain.rewards_nonce = rewards_params.rewards_nonce]_vars

\* C13: every rewards vote carries total_rewards >= the on-chain total_rewards
\* of the voting parameters, and exactly the on-chain value when the computed
\* total (fees plus the rewards of the non-pending validators) is below it.
C13_RewardsClamp ==
    /\ Len(reward_votes) <= 1
    /\ \A k \in DOMAIN reward_votes :
          /\ reward_votes[k].encoded_data[3] >= rewards_params.total_rewards
          /\ reward_votes[k].vote.total_rewards = str(reward_votes[k].encoded_data[3])
          /\ ComputedTotal < rewards_params.total_rewards
                => reward_votes[k].encoded_data[3] = rewards_params.total_rewards
          /\ ComputedTotal >= rewards_params.total_rewards
                => reward_votes[k].encoded_data[3] = ComputedTotal

\* one validator with 31 ETH, fees and on-chain total_rewards of 5 ETH: the
\* computed 4 ETH are voted as 5 ETH
C13_Witness ==
    /\ network = "mainnet"
    /\ Len(beacon_validators) = 1
    /\ beacon_validators[1] = [status |-> "active_ongoing", balance |-> 31]
    /\ rewards_params.total_fees = 5 * EtherInWei
    /\ rewards_params.total_rewards = 5 * EtherInWei
    /\ ComputedTotal = 4 * EtherInWei
    /\ Len(reward_votes) = 1
    /\ reward_votes[1].encoded_data[3] = 5 * EtherInWei
    /\ reward_votes[1].vote.total_rewards = <<1, 6, 0>>

\* C21: process fetches nothing and submits no vote when current_timestamp is
\* before rewards_updated_at_timestamp + sync_period; otherwise the update
\* timestamp is the largest rewards_updated_at_timestamp + k * sync_period,
\* k >= 1, that is <= current_timestamp, less than one sync_period behind it.
C21_Schedule ==
    LET last == rewards_params.rewards_updated_at_timestamp
        due == {t \in (last + 1)..current_timestamp :
                   \E k \in 1..current_timestamp : t = last + k * SYNC_PERIOD}
    IN  /\ current_timestamp < last + SYNC_PERIOD =>
              /\ rframe = NoFrame
              /\ reward_votes = << >>
              /\ rpc \in {"start", "returned"}
        /\ (current_timestamp >= last + SYNC_PERIOD /\ rpc # "start") =>
              /\ rframe.next_update_time \in due
              /\ \A t \in due : t <= rframe.next_update_time
              /\ current_timestamp - rframe.next_update_time < SYNC_PERIOD
              /\ rpc # "keys" => rframe.update_timestamp = rframe.next_update_time

\* two periods have passed since the last update: the vote is for the second
C21_Witness ==
    /\ rewards_params.rewards_updated_at_timestamp = 10
    /\ current_timestamp = 16
    /\ rframe.update_timestamp = 16
    /\ Len(reward_votes) = 1
    /\ rpc = "returned"

\* C22: no validator balance is fetched and no vote is submitted before the
\* beacon chain has reported finalized.epoch >= update_epoch, with update_epoch
\* = (update_timestamp - genesis_time) div seconds_per_epoch; while the reported
\* epoch is lower the controller only sleeps and polls again.
C22_FinalityGate ==
    /\ [](rframe.update_timestamp # 0 =>
              rframe.update_epoch
                  = (rframe.update_timestamp - genesis_timestamp) \div seconds_per_epoch)
    /\ []((rframe.fetched # {} \/ reward_votes # << >> \/ rpc \in {"fetch", "vote"})
              => finalized_epoch >= rframe.update_epoch)
    /\ [][(rpc = "finality" /\ finalized_epoch < rframe.update_epoch)
              => (rpc' = "finality" /\ rframe' = rframe /\ reward_votes' = reward_votes)]_vars

\* the update epoch 7 was not finalized when process was called: the vote is
\* there once the beacon chain has finalized it
C22_Witness ==
    /\ rframe.update_timestamp = 16
    /\ rframe.update_epoch = 7
    /\ finalized_epoch = 7
    /\ rframe.fetched = {1, 2, 3}
    /\ Len(reward_votes) = 1

\* ------------------------------------------------------------------------
\* Properties of the main loop
\* ------------------------------------------------------------------------

C25_PublishAfterFetch ==
    /\ [](Len(reward_votes) + Cardinality(failed_ticks) <= tick)
    /\ [][Len(reward_votes') # Len(reward_votes) =>
              /\ Len(reward_votes') = Len(reward_votes) + 1
              /\ rframe.public_keys = Len(beacon_validators)
              /\ rframe.fetched = 1..Len(beacon_validators)
              /\ tick \notin failed_ticks']_vars

\* three validators, two chunks: the first tick fails, the second has fetched
\* both chunks and published
C25_Witness ==
    /\ Len(beacon_validators) = 3
    /\ failed_ticks = {1}
    /\ tick = 2
    /\ rframe.fetched = {1, 2, 3}
    /\ rframe.i = 4
    /\ Len(reward_votes) = 1
    /\ rpc = "returned"

\* C30: when an update is due and the epoch is finalized but the computed total
\* is exactly 0, process returns without a vote and without changing
\* last_vote_total_rewards, whatever the on-chain total_rewards;
\* last_vote_total_rewards is written only after submit_vote has returned.
C30_ZeroRewards ==
    /\ (rpc = "returned" /\ rframe.update_timestamp # 0 /\ ComputedTotal = 0
            /\ tick \notin failed_ticks) =>
          /\ finalized_epoch >= rframe.update_epoch
          /\ rframe.total_rewards = 0
          /\ reward_votes = << >>
          /\ last_vote_total_rewards = tick_start_state
    /\ last_vote_total_rewards # -1 =>
          /\ reward_votes # << >>
          /\ last_vote_total_rewards = reward_votes[Len(reward_votes)].encoded_data[3]

\* one validator that lost an ether, fees of one ether, 5 ether on chain
C30_Witness ==
    /\ rpc = "returned"
    /\ tick = 1
    /\ failed_ticks = {}
    /\ rframe.update_timestamp = 13
    /\ rframe.fetched = {1}
    /\ beacon_validators = <<[status |-> "active_ongoing", balance |-> 31]>>
    /\ rewards_params.total_fees = EtherInWei
    /\ rewards_params.total_rewards = 5 * EtherInWei
    /\ ComputedTotal = 0
    /\ reward_votes = << >>
    /\ last_vote_total_rewards = -1

HolderOf(k) ==
    IF holder_positions[k].account > 100 THEN holder_positions[k].account - 100
    ELSE holder_positions[k].account

\* prev_points + principal * (to_block - max(updated_at, from_block)), prev_points
\* being 0 when updated_at < from_block
PointsOf(k) ==
    LET pos == holder_positions[k]
        since == IF pos.updatedAtBlock > from_block THEN pos.updatedAtBlock ELSE from_block
        prev_points == IF pos.updatedAtBlock < from_block THEN 0 ELSE pos.distributorPoints
    IN  prev_points + pos.amount * (to_block - since)

\* the positions that are not dropped
KeptPositions == {k \in DOMAIN holder_positions : HolderOf(k) # 0 /\ PointsOf(k) > 0}

\* C23: every position counts with points = prev_points + principal * (to_block
\* - max(updated_at, from_block)), prev_points being 0 when updated_at <
\* from_block; positions of the zero address and positions with points <= 0 are
\* dropped; total_supply is the sum of the returned balances, each of them > 0.
C23_TokenPoints ==
    tpc = "returned" =>
        LET balances == holder_points.balances
        IN  /\ DOMAIN balances = {HolderOf(k) : k \in KeptPositions}
            /\ \A a \in DOMAIN balances :
                  /\ balances[a] > 0
                  /\ balances[a] = SumOver([k \in KeptPositions |-> PointsOf(k)],
                                           {k \in KeptPositions : HolderOf(k) = a})
            /\ holder_points.total_supply = SumOver(balances, DOMAIN balances)

\* two positions of account 1: the one updated before from_block starts from 0
\* points, the one updated after it keeps its 4 points
C23_Witness ==
    /\ tpc = "returned"
    /\ holder_positions =
           <<[account |-> 101, amount |-> 3, distributorPoints |-> 4, updatedAtBlock |-> 9],
             [account |-> 1, amount |-> 3, distributorPoints |-> 4, updatedAtBlock |-> 11]>>
    /\ holder_points.balances = (1 :> 13)
    /\ holder_points.total_supply = 13

\* ------------------------------------------------------------------------
\* Properties of the interval distributions
\* ------------------------------------------------------------------------

\* the rewards of the list of distributions that go to the beneficiary
RECURSIVE RewardsIn(_, _)
RewardsIn(list, beneficiary) ==
    IF list = << >> THEN 0
    ELSE (IF Head(list).beneficiary = beneficiary THEN Head(list).reward ELSE 0)
         + RewardsIn(Tail(list), beneficiary)

\* what get_distributions has emitted for the beneficiary over all intervals
Distributed(beneficiary) ==
    SumOver([b \in DOMAIN distributions |-> RewardsIn(distributions[b], beneficiary)],
            DOMAIN distributions)

\* the event lies inside the distribution window and spans at least one block
InsideWindow(event) ==
    /\ event.startBlock >= distribution_start_block
    /\ event.endBlock <= distribution_end_block
    /\ event.endBlock > event.startBlock

\* C26 (as stated): the rewards emitted for an event inside the distribution
\* window sum to exactly the event's amount, for every blocks_interval >= 1.
C26_IntervalsConserve ==
    dpc = "returned" =>
        \A k \in DOMAIN distribute_events :
            InsideWindow(distribute_events[k]) =>
                Distributed(toChecksumAddress(distribute_events[k].beneficiary))
                    = distribute_events[k].amount

\* ------------------------------------------------------------------------
\* Properties of the block-range scans
\* ------------------------------------------------------------------------

\* the successful getLogs calls whose range holds block b
Covering(b) == {k \in DOMAIN ranges : ranges[k].from <= b /\ b <= ranges[k].to}

\* C27 (as stated): in get_erc20_token_balances and
\* get_token_participated_accounts every block of [start_block, end_block],
\* end_block included, is covered by exactly one successful getLogs range and
\* its Transfer event is applied exactly once.
C27_ScanCoverage ==
    (scanner \in {"erc20_balances", "participated_accounts"} /\ scpc = "returned") =>
        \A b \in first_block..end_block :
            /\ Cardinality(Covering(b)) = 1
            /\ applied[<<"transfer", b>>] = 1

\* C28 (as stated): in get_uniswap_v3_token_owner_liquidity every
\* IncreaseLiquidity and DecreaseLiquidity event a successful getLogs call has
\* returned changes the liquidity exactly once, whatever attempts have failed.
C28_AppliedOnce ==
    (scanner = "v3_liquidity" /\ scpc = "returned") =>
        \A k \in DOMAIN ranges :
            \A b \in ranges[k].from..ranges[k].to :
                applied[<<ranges[k].kind, b>>] = 1

====
